---- MODULE Spec2Model ----
(***************************************************************************)
(* Model of the AI Agent V1 dashboard page                                 *)
(* (src/frontend/pages/config/ai_agent_v1/app.py).                         *)
(*                                                                         *)
(* Part 1: the monitor tab's run ranking (app.py 311-352).                 *)
(* Part 2: safe_float_format (app.py 44-77).                               *)
(* Part 3: safe_get_json_response (app.py 80-97).                          *)
(* Part 4: one render cycle of the page (app.py 178-949).                  *)
(***************************************************************************)
EXTENDS Integers, Sequences, FiniteSets, TLC

VARIABLES
    runs,          \* data.get("runs", []) of the list response (app.py 311)
    sorted_runs,   \* sorted_runs after app.py 352
    rank_pc,       \* position of the monitor tab's list branch
    fmt_in,        \* arguments of a safe_float_format call
    fmt_out,       \* what the call returned or raised
    fmt_pc,        \* position of the call
    response,      \* the requests.Response handed to safe_get_json_response
    json_out,      \* the (data, error) pair returned, or the exception raised
    json_pc,       \* position of the call
    session_state, \* st.session_state: the view-state keys and active_runs
    widgets,       \* widget values of this script run: the button clicked,
                   \* the manual run id, the chosen line of the selector
    page_pc,       \* the section of the script that ran last
    monitor_run_id,\* the script's monitor_run_id while tab_monitor runs
    calls,         \* the HTTP calls issued by the section that ran last
    rendered,      \* the elements rendered by the section that ran last
    script_exit,   \* the exception that stopped the script, "" when none
    flt_in,        \* the logs fetched and the filter widgets of a logs viewer
    flt_out,       \* filtered_logs of the logs viewer (app.py 760-769)
    flt_pc,        \* position within the viewer's filter code
    form,          \* the widget values of the configuration form
    inputs,        \* the dict user_inputs() returned
    payload,       \* the body of the start request (app.py 244-251)
    form_pc        \* position between the form and the start request

rankVars == <<runs, sorted_runs, rank_pc>>
fmtVars  == <<fmt_in, fmt_out, fmt_pc>>
jsonVars == <<response, json_out, json_pc>>
pageVars == <<session_state, widgets, page_pc, monitor_run_id, calls,
              rendered, script_exit>>
filterVars == <<flt_in, flt_out, flt_pc>>
formVars == <<form, inputs, payload, form_pc>>
vars == <<runs, sorted_runs, rank_pc, fmt_in, fmt_out, fmt_pc,
          response, json_out, json_pc, session_state, widgets, page_pc,
          monitor_run_id, calls, rendered, script_exit,
          flt_in, flt_out, flt_pc, form, inputs, payload, form_pc>>

----------------------------------------------------------------------------
(* Python values shared by the parts *)

\* Python's None (a JSON null once parsed)
PyNone == "<None>"

\* marks a key that the dict does not hold
KeyMissing == "<missing>"

\* dict.get(key, default): the default only when the key is absent,
\* a stored None is returned as it is
Get(x, key, default) == IF x[key] = KeyMissing THEN default ELSE x[key]

\* Python's a or b on a string-or-None operand
OrElse(a, b) == IF a = PyNone \/ a = "" THEN b ELSE a

----------------------------------------------------------------------------
(* Part 1: run ranking *)

\* longest run list drawn for the list response
MaxRuns == 3

\* The timestamp strings the model draws, in Python's str order
\* (lexicographic by code point); "2000-01-01" is the sort key's default.
TimestampOrder ==
    <<"1999-12-31", "2000-01-01", "2024-01-01", "2024-01-02", "2024-01-03">>

StrIndex(s) == CHOOSE i \in DOMAIN TimestampOrder : TimestampOrder[i] = s

\* Python's str < str on the timestamps of TimestampOrder
StrLess(a, b) == StrIndex(a) < StrIndex(b)

\* mutant: the priorities of RUNNING and PENDING exchanged
StatusPriorityPendingFirst(status) ==
    CASE status = "RUNNING"   -> 1
      [] status = "PENDING"   -> 0
      [] status = "COMPLETED" -> 2
      [] status = "FAILED"    -> 3
      [] status = "CANCELLED" -> 4
      [] OTHER                -> 999

\* status_priority.get(status, 999), app.py 315 and 321
StatusPriority(status) ==
    CASE status = "RUNNING"   -> 0
      [] status = "PENDING"   -> 1
      [] status = "COMPLETED" -> 2
      [] status = "FAILED"    -> 3
      [] status = "CANCELLED" -> 4
      [] OTHER                -> 999

\* x.get("created_at", "2000-01-01") or "2000-01-01", app.py 322
CreatedKey(x) == OrElse(Get(x, "created_at", "2000-01-01"), "2000-01-01")

\* mutant: the key without its created_at component
SortKeyPriorityOnly(x) == <<StatusPriority(Get(x, "status", "")), "2000-01-01">>

\* the sort key lambda, app.py 320-323
SortKey(x) == <<StatusPriority(Get(x, "status", "")), CreatedKey(x)>>

\* Python's tuple comparison k1 < k2 on (int, str) keys
KeyLess(k1, k2) ==
    \/ k1[1] < k2[1]
    \/ k1[1] = k2[1] /\ StrLess(k1[2], k2[2])

\* One insertion of a stable ascending sort: x goes after every element
\* whose key is not greater than its own.
RECURSIVE InsertSorted(_, _)
InsertSorted(s, x) ==
    IF s = <<>> THEN <<x>>
    ELSE IF KeyLess(SortKey(x), SortKey(Head(s)))
         THEN <<x>> \o s
         ELSE <<Head(s)>> \o InsertSorted(Tail(s), x)

\* sorted(runs, key=..., reverse=False), app.py 318-325: stable, ascending
RECURSIVE SortedAsc(_)
SortedAsc(s) ==
    IF s = <<>> THEN <<>>
    ELSE InsertSorted(SortedAsc(SubSeq(s, 1, Len(s) - 1)), s[Len(s)])

\* list.reverse()
RECURSIVE Reverse(_)
Reverse(s) == IF s = <<>> THEN <<>> ELSE Reverse(Tail(s)) \o <<Head(s)>>

\* mutant: the loop without the flush of the last group (app.py 348-350)
RECURSIVE GroupLoopForgetLast(_, _, _, _)
GroupLoopForgetLast(rest, current_status, current_group, final_sorted) ==
    IF rest = <<>>
    THEN final_sorted
    ELSE LET run        == Head(rest)
             run_status == Get(run, "status", "")
             cs         == IF current_status = PyNone THEN run_status
                           ELSE current_status
         IN  IF run_status = cs
             THEN GroupLoopForgetLast(Tail(rest), cs, current_group \o <<run>>,
                                      final_sorted)
             ELSE GroupLoopForgetLast(Tail(rest), run_status, <<run>>,
                                      final_sorted \o Reverse(current_group))

\* mutant: the last group appended without current_group.reverse()
RECURSIVE GroupLoopLastNotReversed(_, _, _, _)
GroupLoopLastNotReversed(rest, current_status, current_group, final_sorted) ==
    IF rest = <<>>
    THEN final_sorted \o current_group
    ELSE LET run        == Head(rest)
             run_status == Get(run, "status", "")
             cs         == IF current_status = PyNone THEN run_status
                           ELSE current_status
         IN  IF run_status = cs
             THEN GroupLoopLastNotReversed(Tail(rest), cs,
                                           current_group \o <<run>>,
                                           final_sorted)
             ELSE GroupLoopLastNotReversed(Tail(rest), run_status, <<run>>,
                                           final_sorted \o Reverse(current_group))

\* The for loop of app.py 332-345 over the rest of sorted_runs, carrying
\* current_status, current_group and final_sorted; then app.py 348-350.
RECURSIVE GroupLoop(_, _, _, _)
GroupLoop(rest, current_status, current_group, final_sorted) ==
    IF rest = <<>>
    THEN IF current_group # <<>>
         THEN final_sorted \o Reverse(current_group)
         ELSE final_sorted
    ELSE LET run        == Head(rest)
             run_status == Get(run, "status", "")
             cs         == IF current_status = PyNone THEN run_status
                           ELSE current_status
         IN  IF run_status = cs
             THEN GroupLoop(Tail(rest), cs, current_group \o <<run>>,
                            final_sorted)
             ELSE GroupLoop(Tail(rest), run_status, <<run>>,
                            final_sorted \o Reverse(current_group))

\* app.py 328-352: final_sorted
ReverseWithinGroups(s) == GroupLoop(s, PyNone, <<>>, <<>>)

\* app.py 318-352: the ranking shown in the selector
Ranking(rs) == ReverseWithinGroups(SortedAsc(rs))

\* no safe_float_format call in progress
FmtIdle ==
    /\ fmt_in = <<>>
    /\ fmt_out = <<>>
    /\ fmt_pc = "idle"

\* no safe_get_json_response call in progress
JsonIdle ==
    /\ response = <<>>
    /\ json_out = <<>>
    /\ json_pc = "idle"

\* st.session_state of a new session
NewSession ==
    [view_live_logs_run_id |-> KeyMissing, view_results_run_id |-> KeyMissing,
     active_runs |-> KeyMissing, monitor_selected_run |-> KeyMissing]

\* no page is rendered
PageIdle ==
    /\ session_state = NewSession
    /\ widgets = <<>>
    /\ page_pc = "idle"
    /\ monitor_run_id = PyNone
    /\ calls = <<>>
    /\ rendered = {}
    /\ script_exit = ""

\* no logs viewer is filtering
FilterIdle ==
    /\ flt_in = <<>>
    /\ flt_out = <<>>
    /\ flt_pc = "idle"

\* no configuration form is read
FormIdle ==
    /\ form = <<>>
    /\ inputs = <<>>
    /\ payload = <<>>
    /\ form_pc = "idle"

\* stage values drawn for a run summary: the five stages, two
\* unrecognised strings, a null, and an absent status key
StageVals ==
    {"RUNNING", "PENDING", "COMPLETED", "FAILED", "CANCELLED",
     "FOO", "BAR", PyNone, KeyMissing}

\* created_at values drawn for a run summary
CreatedVals ==
    {KeyMissing, PyNone, "", "1999-12-31",
     "2024-01-01", "2024-01-02", "2024-01-03"}

\* The list responses drawn: every stage value with few timestamps, and
\* every timestamp value with few stage values.
RunVals ==
    (StageVals \X {KeyMissing, "2024-01-01"})
        \cup ({"RUNNING", "FOO"} \X CreatedVals)

RunSummary(i, st, ca) == [run_id |-> i, status |-> st, created_at |-> ca]

InitRank ==
    /\ \E n \in 0..MaxRuns :
         \E f \in [1..n -> RunVals] :
            runs = [i \in 1..n |-> RunSummary(i, f[i][1], f[i][2])]
    /\ sorted_runs = <<>>
    /\ rank_pc = "fetched"
    /\ FmtIdle
    /\ JsonIdle
    /\ PageIdle
    /\ FilterIdle
    /\ FormIdle

\* app.py 313-352: if runs and len(runs) > 0 branch
RankRuns ==
    /\ rank_pc = "fetched"
    /\ runs # <<>>
    /\ sorted_runs' = Ranking(runs)
    /\ rank_pc' = "ranked"
    /\ UNCHANGED runs
    /\ UNCHANGED <<fmtVars, jsonVars, pageVars, filterVars, formVars>>

\* app.py 401-408: the else branch, no ranking
NoRunsFound ==
    /\ rank_pc = "fetched"
    /\ runs = <<>>
    /\ rank_pc' = "no_runs"
    /\ UNCHANGED <<runs, sorted_runs>>
    /\ UNCHANGED <<fmtVars, jsonVars, pageVars, filterVars, formVars>>

NextRank == RankRuns \/ NoRunsFound

SpecRank == InitRank /\ [][NextRank]_vars

----------------------------------------------------------------------------
(* Part 2: safe_float_format, app.py 44-77                                 *)
(*                                                                         *)
(* A str is a sequence of one-character strings.  A number is             *)
(* [cls, neg, mag]: cls "finite" with magnitude mag / Unit and sign neg,   *)
(* cls "inf" or "nan" for the non-finite doubles, cls "big" for an int     *)
(* whose magnitude is beyond the range of a double (such as 10**400).      *)
(* Doubles are kept as decimal fixed point; the representation error of a  *)
(* binary double can only decide a rounding tie, so a tie rounds either    *)
(* way.                                                                    *)

\* decimal digits kept after the point
FracDigits == 4

RECURSIVE Pow10(_)
Pow10(n) == IF n = 0 THEN 1 ELSE 10 * Pow10(n - 1)

\* the fixed-point unit: 1.0 is Unit
Unit == Pow10(FracDigits)

Digits == <<"0", "1", "2", "3", "4", "5", "6", "7", "8", "9">>

IsDigit(c) == \E d \in 1..10 : Digits[d] = c

DigitVal(c) == (CHOOSE d \in 1..10 : Digits[d] = c) - 1

Range(q) == {q[i] : i \in 1..Len(q)}

\* value of a digit string, "" counting 0
RECURSIVE DigitsVal(_)
DigitsVal(q) ==
    IF q = <<>> THEN 0
    ELSE 10 * DigitsVal(SubSeq(q, 1, Len(q) - 1)) + DigitVal(q[Len(q)])

\* str.strip() of the spaces float() ignores
RECURSIVE LStrip(_)
LStrip(q) == IF q # <<>> /\ Head(q) = " " THEN LStrip(Tail(q)) ELSE q

RECURSIVE RStrip(_)
RStrip(q) ==
    IF q # <<>> /\ q[Len(q)] = " " THEN RStrip(SubSeq(q, 1, Len(q) - 1)) ELSE q

Strip(q) == RStrip(LStrip(q))

Number(cls, neg, mag) == [cls |-> cls, neg |-> neg, mag |-> mag]

\* float(value) on a str, app.py 65, for strings without exponent part:
\* [ok |-> FALSE] stands for ValueError
ParseFloat(text) ==
    LET t    == Strip(text)
        neg  == t # <<>> /\ Head(t) \in {"-"}
        sgn  == t # <<>> /\ Head(t) \in {"-", "+"}
        body == IF sgn THEN Tail(t) ELSE t
        dots == {i \in 1..Len(body) : body[i] = "."}
        dot  == IF dots = {} THEN Len(body) + 1 ELSE CHOOSE i \in dots : TRUE
        ip   == SubSeq(body, 1, dot - 1)
        fp   == SubSeq(body, dot + 1, Len(body))
    IN  IF body \in {<<"i", "n", "f">>,
                     <<"i", "n", "f", "i", "n", "i", "t", "y">>}
        THEN [ok |-> TRUE, num |-> Number("inf", neg, 0)]
        ELSE IF body = <<"n", "a", "n">>
        THEN [ok |-> TRUE, num |-> Number("nan", FALSE, 0)]
        ELSE IF /\ Cardinality(dots) <= 1
                /\ \A c \in Range(ip) \cup Range(fp) : IsDigit(c)
                /\ Len(ip) + Len(fp) >= 1
                /\ Len(fp) <= FracDigits
        THEN [ok |-> TRUE,
              num |-> Number("finite", neg,
                             DigitsVal(ip) * Unit
                               + DigitsVal(fp) * Pow10(FracDigits - Len(fp)))]
        ELSE [ok |-> FALSE, num |-> Number("nan", FALSE, 0)]

\* value * multiplier, app.py 70, for an int multiplier >= 1
Multiply(num, multiplier) ==
    IF num.cls = "finite"
    THEN Number("finite", num.neg, num.mag * multiplier)
    ELSE num

\* decimal digits of a natural number
RECURSIVE NatToStr(_)
NatToStr(n) ==
    IF n < 10 THEN <<Digits[n + 1]>>
    ELSE NatToStr(n \div 10) \o <<Digits[(n % 10) + 1]>>

\* the last width decimal digits of n, zero padded
RECURSIVE PadDigits(_, _)
PadDigits(n, width) ==
    IF width = 0 THEN <<>>
    ELSE PadDigits(n \div 10, width - 1) \o <<Digits[(n % 10) + 1]>>

\* mag / Unit rounded to precision decimals, in units of 10^-precision;
\* a tie may go either way
Rounded(mag, precision) ==
    LET step == Pow10(FracDigits - precision)
        q    == mag \div step
        r    == mag % step
    IN  IF 2 * r < step THEN {q}
        ELSE IF 2 * r > step THEN {q + 1}
        ELSE {q, q + 1}

\* an unsigned amount of units of 10^-precision with exactly
\* precision decimals
FixedStr(neg, amount, precision) ==
    (IF neg THEN <<"-">> ELSE <<>>)
        \o NatToStr(amount \div Pow10(precision))
        \o (IF precision = 0 THEN <<>>
            ELSE <<".">> \o PadDigits(amount % Pow10(precision), precision))

Returned(val) == [raised |-> "", ret |-> val]
Raised(exc)   == [raised |-> exc, ret |-> <<>>]

\* f"{value:.{precision}f}", app.py 73: the set of possible outcomes
FormatFixed(num, precision) ==
    IF precision < 0 THEN {Raised("ValueError")}
    ELSE IF num.cls = "big" THEN {Raised("OverflowError")}
    ELSE IF num.cls = "nan" THEN {Returned(<<"n", "a", "n">>)}
    ELSE IF num.cls = "inf"
    THEN {Returned((IF num.neg THEN <<"-">> ELSE <<>>) \o <<"i", "n", "f">>)}
    ELSE {Returned(FixedStr(num.neg, a, precision)) :
              a \in Rounded(num.mag, precision)}

\* mutant: the value rounded to the precision first, then multiplied
RoundThenMultiply(num, multiplier, precision) ==
    IF precision < 0 \/ num.cls # "finite"
    THEN FormatFixed(num, precision)
    ELSE {Returned(FixedStr(num.neg, a * multiplier, precision)) :
              a \in Rounded(num.mag, precision)}

\* app.py 70-73: multiply, then format
MultiplyThenFormat(num, multiplier, precision) ==
    FormatFixed(Multiply(num, multiplier), precision)

\* the exceptions the except clause of app.py 76 names
CaughtByFormat == {"ValueError", "TypeError", "AttributeError"}

\* app.py 59-77: outcomes of the try body, then the except clause
SafeFloatFormat(value, precision, prefix, suffix, multiplier, default) ==
    LET body ==
            IF value.type = "NoneType" THEN {Returned(default)}
            ELSE IF value.type = "str"
            THEN LET f == ParseFloat(value.text)
                 IN  IF ~f.ok THEN {Raised("ValueError")}
                     ELSE {IF o.raised = "" THEN Returned(prefix \o o.ret \o suffix)
                           ELSE o :
                              o \in MultiplyThenFormat(f.num, multiplier, precision)}
            ELSE IF value.type \notin {"int", "bool", "float"}
            THEN {Returned(default)}
            ELSE {IF o.raised = "" THEN Returned(prefix \o o.ret \o suffix)
                  ELSE o :
                     o \in MultiplyThenFormat(value.num, multiplier, precision)}
    IN  {IF o.raised \in CaughtByFormat THEN Returned(default) ELSE o : o \in body}

\* Python values handed to safe_float_format
Value(type, text, num) == [type |-> type, text |-> text, num |-> num]

NoNumber == Number("nan", FALSE, 0)

\* longest str value drawn exhaustively
MaxStrLen == 2

StrChars == {"1", "5", ".", "-", " ", "a"}

StrValues ==
    UNION { [1..n -> StrChars] : n \in 0..MaxStrLen }
      \cup { <<"0", ".", "1", "2", "3", "4">>, <<"1", "2", ".", "5">>,
             <<"0", ".", "1", "2", "5">>, <<"-", "0", ".", "0">>,
             <<"a", "b", "c">>, <<"n", "a", "n">>, <<"i", "n", "f">>,
             <<"-", "i", "n", "f">>, <<" ", "1", ".", "5", " ">>,
             <<"1", ".", "5", ".">> }

\* magnitudes in 1/Unit: 0, 0.005, 0.1234, 0.125, 0.5, 5, 12.3456
FloatMags == {0, 50, 1234, 1250, 5000, 50000, 123456}

FormatValues ==
    {Value("NoneType", <<>>, NoNumber),
     Value("list", <<>>, NoNumber),
     Value("dict", <<>>, NoNumber)}
      \cup {Value("str", t, NoNumber) : t \in StrValues}
      \cup {Value("float", <<>>, Number("finite", neg, m)) :
               neg \in BOOLEAN, m \in FloatMags}
      \cup {Value("float", <<>>, Number(c, neg, 0)) :
               c \in {"inf", "nan"}, neg \in BOOLEAN}
      \cup {Value("int", <<>>, Number("finite", neg, n * Unit)) :
               neg \in BOOLEAN, n \in {5, 12}}
      \cup {Value("int", <<>>, Number("finite", FALSE, 0))}
      \cup {Value("int", <<>>, Number("big", neg, 0)) : neg \in BOOLEAN}
      \cup {Value("bool", <<>>, Number("finite", FALSE, b * Unit)) : b \in {0, 1}}

\* the sentinel default of app.py 44
DefaultText == <<"N", "/", "A">>

RankIdle ==
    /\ runs = <<>>
    /\ sorted_runs = <<>>
    /\ rank_pc = "idle"

InitFormat ==
    /\ RankIdle
    /\ JsonIdle
    /\ PageIdle
    /\ FilterIdle
    /\ FormIdle
    /\ fmt_in \in [value      : FormatValues,
                   precision  : {-1, 0, 1, 2},
                   prefix     : {<<>>, <<"$">>},
                   suffix     : {<<>>, <<"%">>},
                   multiplier : {1, 100}]
    /\ fmt_out = <<>>
    /\ fmt_pc = "called"

\* one call of safe_float_format, app.py 44-77
FormatCall ==
    /\ fmt_pc = "called"
    /\ \E o \in SafeFloatFormat(fmt_in.value, fmt_in.precision, fmt_in.prefix,
                                fmt_in.suffix, fmt_in.multiplier, DefaultText) :
          /\ fmt_out' = o
          /\ fmt_pc' = IF o.raised = "" THEN "returned" ELSE "raised"
    /\ UNCHANGED fmt_in
    /\ UNCHANGED <<rankVars, jsonVars, pageVars, filterVars, formVars>>

NextFormat == FormatCall

SpecFormat == InitFormat /\ [][NextFormat]_vars

----------------------------------------------------------------------------
(* Part 3: safe_get_json_response, app.py 80-97                            *)
(*                                                                         *)
(* response.text is a sequence of characters.  A parsed JSON value is      *)
(* [t, v]: t the Python type, v its content as a sequence.  JSON null      *)
(* parses to Python's None, the same None the function returns as "no      *)
(* data" and as "no error".                                                *)

JNone     == [t |-> "NoneType", v |-> <<>>]
JBool(b)  == [t |-> "bool", v |-> <<b>>]
JInt(n)   == [t |-> "int", v |-> <<n>>]
JStr(cs)  == [t |-> "str", v |-> cs]
JList(xs) == [t |-> "list", v |-> xs]
JDict(ms) == [t |-> "dict", v |-> ms]

ParseFail == [ok |-> FALSE, val |-> JNone, next |-> 0]
ParseOk(val, next) == [ok |-> TRUE, val |-> val, next |-> next]

\* the first position at or after i whose character is not in cs,
\* Len(s) + 1 if there is none
FirstNotIn(s, i, cs) ==
    LET stop == {j \in i..Len(s) : s[j] \notin cs}
    IN  IF stop = {} THEN (IF i > Len(s) THEN i ELSE Len(s) + 1)
        ELSE CHOOSE j \in stop : \A k \in stop : j <= k

\* first position at or after i that holds no space
SkipWs(s, i) == FirstNotIn(s, i, {" "})

\* the word stands at position i
Literal(s, i, word) ==
    /\ i + Len(word) - 1 <= Len(s)
    /\ SubSeq(s, i, i + Len(word) - 1) = word

\* first position at or after i that holds no digit
ScanDigits(s, i) == FirstNotIn(s, i, Range(Digits))

\* position of the next double quote at or after i, 0 if there is none
ScanQuote(s, i) ==
    LET q == {j \in i..Len(s) : s[j] = "\""}
    IN  IF q = {} THEN 0 ELSE CHOOSE j \in q : \A k \in q : j <= k

\* The JSON grammar on null, true, false, unsigned integers, strings
\* without escapes, arrays and objects, with the space as whitespace.
RECURSIVE ParseValue(_, _)
RECURSIVE ParseElements(_, _, _)
RECURSIVE ParseMembers(_, _, _)

ParseValue(s, i) ==
    IF i > Len(s) THEN ParseFail
    ELSE IF Literal(s, i, <<"n", "u", "l", "l">>) THEN ParseOk(JNone, i + 4)
    ELSE IF Literal(s, i, <<"t", "r", "u", "e">>) THEN ParseOk(JBool(TRUE), i + 4)
    ELSE IF Literal(s, i, <<"f", "a", "l", "s", "e">>)
    THEN ParseOk(JBool(FALSE), i + 5)
    ELSE IF IsDigit(s[i])
    THEN LET j == IF s[i] = "0" THEN i + 1 ELSE ScanDigits(s, i)
         IN  ParseOk(JInt(DigitsVal(SubSeq(s, i, j - 1))), j)
    ELSE IF s[i] = "\""
    THEN LET j == ScanQuote(s, i + 1)
         IN  IF j = 0 THEN ParseFail
             ELSE ParseOk(JStr(SubSeq(s, i + 1, j - 1)), j + 1)
    ELSE IF s[i] = "["
    THEN LET k == SkipWs(s, i + 1)
         IN  IF k <= Len(s) /\ s[k] = "]" THEN ParseOk(JList(<<>>), k + 1)
             ELSE ParseElements(s, k, <<>>)
    ELSE IF s[i] = "{"
    THEN LET k == SkipWs(s, i + 1)
         IN  IF k <= Len(s) /\ s[k] = "}" THEN ParseOk(JDict(<<>>), k + 1)
             ELSE ParseMembers(s, k, <<>>)
    ELSE ParseFail

ParseElements(s, i, acc) ==
    LET e == ParseValue(s, i)
        k == SkipWs(s, e.next)
    IN  IF ~e.ok \/ k > Len(s) THEN ParseFail
        ELSE IF s[k] = "]" THEN ParseOk(JList(acc \o <<e.val>>), k + 1)
        ELSE IF s[k] = ","
        THEN ParseElements(s, SkipWs(s, k + 1), acc \o <<e.val>>)
        ELSE ParseFail

ParseMembers(s, i, acc) ==
    IF i > Len(s) \/ s[i] # "\"" THEN ParseFail
    ELSE LET j == ScanQuote(s, i + 1)
             c == SkipWs(s, j + 1)
         IN  IF j = 0 \/ c > Len(s) \/ s[c] # ":" THEN ParseFail
             ELSE LET e == ParseValue(s, SkipWs(s, c + 1))
                      k == SkipWs(s, e.next)
                      m == acc \o << <<SubSeq(s, i + 1, j - 1), e.val>> >>
                  IN  IF ~e.ok \/ k > Len(s) THEN ParseFail
                      ELSE IF s[k] = "}" THEN ParseOk(JDict(m), k + 1)
                      ELSE IF s[k] = ","
                      THEN ParseMembers(s, SkipWs(s, k + 1), m)
                      ELSE ParseFail

\* json.loads(text): one value, whitespace around it, nothing else
ParseJson(text) ==
    LET e == ParseValue(text, SkipWs(text, 1))
    IN  IF e.ok /\ SkipWs(text, e.next) = Len(text) + 1 THEN e ELSE ParseFail

\* response.json(), app.py 91.  On a body that is not JSON requests raises
\* its JSONDecodeError, which derives from json.JSONDecodeError, or from
\* simplejson's (not a json.JSONDecodeError) where simplejson is installed.
ResponseJson(resp) ==
    LET e == ParseJson(resp.text)
    IN  IF e.ok THEN [raised |-> "", val |-> e.val]
        ELSE [raised |-> resp.decoder \o ".JSONDecodeError", val |-> JNone]

\* characters of the body an error message may quote, app.py 93
SnippetLimit == 200

\* mutant: the body quoted whole
SnippetUncut(text) == text

\* response.text[:200], app.py 93
Snippet(text) ==
    SubSeq(text, 1, IF Len(text) < SnippetLimit THEN Len(text) ELSE SnippetLimit)

ErrorMsg(head, exc, quoted) == [head |-> head, exc |-> exc, quoted |-> quoted]

JsonReturn(data, error) == [raised |-> "", data |-> data, error |-> error]

\* app.py 90-97
SafeGetJsonResponse(resp) ==
    LET r == ResponseJson(resp)
    IN  IF r.raised = "" THEN JsonReturn(r.val, JNone)
        ELSE IF r.raised = "json.JSONDecodeError"
        THEN JsonReturn(JNone, ErrorMsg("Invalid JSON response: ", r.raised,
                                        Snippet(resp.text)))
        ELSE JsonReturn(JNone, ErrorMsg("Error parsing response: ", r.raised, <<>>))

\* longest body drawn exhaustively
MaxBodyLen == 4

BodyChars == {"n", "u", "l", "[", "]", "{", "}", "1", " "}

Filler(c, n) == [i \in 1..n |-> c]

\* bodies: every short text over BodyChars, some JSON documents of the
\* backend, and non-JSON bodies around the snippet limit
Bodies ==
    UNION { [1..n -> BodyChars] : n \in 0..MaxBodyLen }
      \cup { <<"{", "\"", "r", "u", "n", "s", "\"", ":", "[", "]", "}">>,
             <<"{", "\"", "r", "u", "n", "s", "\"", ":", "n", "u", "l", "l", "}">>,
             <<"{", "\"", "a", "\"", ":", "1", ",", "\"", "b", "\"", ":", "[", "1",
               ",", "1", "]", "}">>,
             <<"[", "1", ",", "]">>, <<"t", "r", "u", "e">>,
             <<"\"", "o", "k", "\"">>, <<"<", "h", "t", "m", "l", ">">> }
      \cup { Filler(c, n) : c \in {"x", " "},
                            n \in {SnippetLimit - 1, SnippetLimit,
                                   SnippetLimit + 1, SnippetLimit + 50} }
      \cup { <<"[">> \o Filler(" ", SnippetLimit) \o <<"]">>,
             <<"[">> \o Filler(" ", SnippetLimit) \o <<"x">> }

InitJson ==
    /\ RankIdle
    /\ FmtIdle
    /\ PageIdle
    /\ FilterIdle
    /\ FormIdle
    /\ response \in [text : Bodies, decoder : {"json", "simplejson"}]
    /\ json_out = <<>>
    /\ json_pc = "called"

\* one call of safe_get_json_response, app.py 80-97
JsonCall ==
    /\ json_pc = "called"
    /\ json_out' = SafeGetJsonResponse(response)
    /\ json_pc' = IF json_out'.raised = "" THEN "returned" ELSE "raised"
    /\ UNCHANGED response
    /\ UNCHANGED <<rankVars, fmtVars, pageVars, filterVars, formVars>>

NextJson == JsonCall

SpecJson == InitJson /\ [][NextJson]_vars

----------------------------------------------------------------------------
(* Part 4: one render cycle of the page, app.py 178-949                    *)
(*                                                                         *)
(* Streamlit runs the script top to bottom on every operator interaction   *)
(* and on every st.rerun().  The sections of the script are the steps of   *)
(* the cycle: tab_config, tab_monitor (list), status, tab_history,         *)
(* logs_viewer, results_viewer, save_config.  A text is a tuple of the     *)
(* pieces of an f-string; emoji are written as :shortcodes:.               *)

\* identifiers of the backend's runs
RunIds == {"r1", "r2"}

\* longest active_runs list kept
MaxActive == 1

\* a JSON number in the place of a run id, which the data model has as
\* a str: the number 7
NumberId == "7"

\* v[:n] raises a TypeError on an int
Sliceable(v) == v # NumberId

\* s[:n] on a str
Slice(s, n) == SubSeq(s, 1, IF Len(s) < n THEN Len(s) ELSE n)

\* str(v) inside an f-string
Str(v) == IF v = PyNone THEN "None" ELSE v

\* Python truth value of a str-or-None
Truthy(v) == v # PyNone /\ v # "" /\ v # KeyMissing

\* the characters of a formatted number as one str
RECURSIVE Join(_)
Join(q) == IF q = <<>> THEN "" ELSE Head(q) \o Join(Tail(q))

\* an element rendered by st.<el>(...); idx numbers the rows of a listing
El(el, site, idx, msg) == [el |-> el, site |-> site, idx |-> idx, msg |-> msg]

\* a requests call and its answer: site is the place in app.py that issues it
Call(site, method, url, timeout, resp) ==
    [site |-> site, method |-> method, url |-> url, timeout |-> timeout,
     resp |-> resp,
     outcome |-> IF resp.raises # "" THEN "exception"
                 ELSE IF resp.status_code # "200" THEN "non200"
                 ELSE IF resp.body.t = "invalid" THEN "unparsable"
                 ELSE "ok"]

\* decoded bodies: not JSON at all, JSON null; a JSON object is a record
\* with t = "dict"
NotJson   == [t |-> "invalid"]
JsonNull  == [t |-> "NoneType"]

\* a requests call that raised (ConnectionError, Timeout)
Raises(exc) == [raises |-> exc, status_code |-> "", text |-> "", body |-> NotJson]

\* a requests.Response
Http(status_code, text, body) ==
    [raises |-> "", status_code |-> status_code, text |-> text, body |-> body]

\* the failures of a call: transport exception, non-200, unparsable body,
\* and a 200 whose body is JSON null
FailedResponses ==
    {Raises("Timeout"),
     Http("500", "Internal Server Error", NotJson),
     Http("200", "<html>", NotJson),
     Http("200", "null", JsonNull)}

\* safe_get_json_response (app.py 80-97) on a response whose decoding is
\* resp.body; the bodies drawn here are shorter than SnippetLimit
SafeGetJson(resp) ==
    IF resp.body.t = "invalid"
    THEN [data |-> JsonNull,
          error |-> <<"Invalid JSON response: ", "Expecting value",
                      "\nResponse text: ", Slice(resp.text, SnippetLimit)>>]
    ELSE [data |-> resp.body, error |-> <<>>]

\* mutant: handlers that catch the requests exceptions only
CaughtRequestsOnly(exc) == exc \in {"ConnectionError", "Timeout"}

\* except Exception: st.rerun() raises a RerunException, which is a
\* BaseException and passes through every handler of the page
CaughtByPage(exc) == exc # "" /\ exc # "RerunException"

\* the single element of a set: the single outcome of a formatting call
\* (the numbers drawn in Part 4 have no rounding tie), or a value computed
\* once and then named
The(S) == CHOOSE o \in S : TRUE

\* a JSON number as the Python value handed to safe_float_format
JsonNumber(s) ==
    IF s = PyNone \/ s = KeyMissing THEN Value("NoneType", <<>>, NoNumber)
    ELSE IF s = "0.1234" THEN Value("float", <<>>, Number("finite", FALSE, 1234))
    ELSE IF s = "0.5" THEN Value("float", <<>>, Number("finite", FALSE, 5000))
    ELSE IF s = "0" THEN Value("int", <<>>, Number("finite", FALSE, 0))
    ELSE IF s = "10**400" THEN Value("int", <<>>, Number("big", FALSE, 0))
    ELSE Value("str", <<s>>, NoNumber)

\* safe_float_format(x.get(key), precision=.., multiplier=100, suffix="%")
PercentOf(v, precision) ==
    {[raised |-> o.raised, text |-> Join(o.ret)] :
        o \in SafeFloatFormat(JsonNumber(v), precision, <<>>, <<"%">>, 100,
                              DefaultText)}

\* the JSON numbers drawn for the page, None for null or absent
NumberTexts == {PyNone, "0.1234", "0.5", "0", "10**400"}

\* PercentOf on the numbers drawn, computed once
PercentTable == [v \in NumberTexts |-> [p \in 1..2 |-> PercentOf(v, p)]]

Percent(x, key, precision) == PercentTable[Get(x, key, PyNone)][precision]

\* mutant: a stage the page does not know is shown as a failed one
StatusEmojiNoDefault(status) ==
    IF status = "PENDING" THEN ":hourglass:"
    ELSE IF status = "RUNNING" THEN ":runner:"
    ELSE IF status = "COMPLETED" THEN ":white_check_mark:"
    ELSE IF status = "CANCELLED" THEN ":stop_sign:"
    ELSE ":x:"

\* the emoji of a stage, app.py 361-367 and 451-457
StatusEmoji(status) ==
    IF status = "PENDING" THEN ":hourglass:"
    ELSE IF status = "RUNNING" THEN ":runner:"
    ELSE IF status = "COMPLETED" THEN ":white_check_mark:"
    ELSE IF status = "FAILED" THEN ":x:"
    ELSE IF status = "CANCELLED" THEN ":stop_sign:"
    ELSE ":question:"

\* the emoji of a log level, app.py 576-581
LogEmoji(log_level) ==
    IF log_level = "INFO" THEN ":information_source:"
    ELSE IF log_level = "DEBUG" THEN ":bug:"
    ELSE IF log_level = "WARNING" THEN ":warning:"
    ELSE IF log_level = "ERROR" THEN ":x:"
    ELSE ":memo:"

\* what a section of the script leaves behind: the elements rendered, the
\* calls issued, the exception leaving the section ("" when none), the
\* session state and the script's monitor_run_id
Out(els, cs, exc, ss, mon) ==
    [shown |-> els, calls |-> cs, raised |-> exc, session_state |-> ss,
     monitor_run_id |-> mon]

\* mutant: a handler that also reloads the page
HandleAndReload(o, site, el, head) ==
    The({IF CaughtByPage(b.raised)
         THEN [b EXCEPT !.shown = @ \cup {El(el, site, 0, <<head, b.raised>>)},
                        !.raised = "RerunException"]
         ELSE b : b \in {o}})

\* try: ... except Exception as e: st.<el>(f"{head}{e}") around a section
Handle(o, site, el, head) ==
    The({IF CaughtByPage(b.raised)
         THEN [b EXCEPT !.shown = @ \cup {El(el, site, 0, <<head, b.raised>>)},
                        !.raised = ""]
         ELSE b : b \in {o}})

\* n as a str
NumStr(n) == Join(NatToStr(n))

----------------------------------------------------------------------------
(* tab_config: the start button, app.py 241-278 *)

TabConfig(w, ss, resp) ==
    IF w.clicked # "start_backtest" THEN Out({}, <<>>, "", ss, PyNone)
    ELSE
    LET c == <<Call("start", "POST", <<"/backtesting/start">>, 10, resp)>>
        run_id == Get(resp.body, "run_id", PyNone)
        active == IF ss.active_runs = KeyMissing THEN <<>> ELSE ss.active_runs
        body ==
            IF resp.raises # "" THEN Out({}, c, resp.raises, ss, PyNone)
            ELSE IF resp.status_code = "200"
            THEN IF resp.body.t = "invalid"
                 THEN Out({}, c, "JSONDecodeError", ss, PyNone)
                 ELSE IF resp.body.t # "dict"
                 THEN Out({}, c, "AttributeError", ss, PyNone)
                 ELSE Out({El("success", "start", 0,
                              <<":white_check_mark: Backtest started successfully!">>),
                           El("info", "start", 0,
                              <<"**Run ID:** ", Str(run_id), "">>)},
                          c, "",
                          [ss EXCEPT !.active_runs = Append(active, run_id)],
                          PyNone)
            ELSE Out({El("error", "start", 0,
                         <<":x: Failed to start backtest: ", resp.status_code,
                           " - ", resp.text>>)},
                     c, "", ss, PyNone)
    IN  Handle(body, "start", "error", ":x: Error starting backtest: ")

----------------------------------------------------------------------------
(* tab_monitor, step 1: the run list, app.py 280-420 *)

\* app.py 359-376: one line of the selector
Option(i, run) ==
    LET status == Get(run, "status", "UNKNOWN")
        status_emoji == StatusEmoji(status)
        run_name == Get(run, "run_name", "N/A")
        created_at == Get(run, "created_at", "")
        created_display == IF Truthy(created_at) THEN Slice(created_at, 19)
                           ELSE "N/A"
        total_trades == Get(run, "total_trades", PyNone)
        trades_display == IF total_trades # PyNone
                          THEN total_trades \o " trades" ELSE "No trades"
    IN  El("option", "monitor_list", i,
           <<status_emoji, " ", Str(status), " | ", Str(run_name), " | ",
             created_display, " | ", trades_display>>)

\* the index st.selectbox returns: the operator's choice, the first line
\* when the choice is no line of the list
SelectedIdx(w, n) ==
    IF w.monitor_run_selector <= n THEN w.monitor_run_selector ELSE 1

\* mutant: the refresh also forgets the open viewers
RefreshListClosingViewers(ss) ==
    [ss EXCEPT !.monitor_selected_run = KeyMissing,
               !.view_live_logs_run_id = KeyMissing,
               !.view_results_run_id = KeyMissing]

\* app.py 292-293: del st.session_state["monitor_selected_run"] if present
RefreshList(ss) == [ss EXCEPT !.monitor_selected_run = KeyMissing]

\* app.py 310-399: the selector over the ranked runs and the run chosen
Selector(w, ss, c, srt) ==
    LET options == {Option(i, srt[i]) : i \in 1..Len(srt)}
        found == El("write", "monitor_list", 0,
                    <<"Found **", NumStr(Len(srt)), "** backtest runs">>)
        selected_idx == SelectedIdx(w, Len(srt))
        listed == {found} \cup options
    IN  IF srt[selected_idx].run_id = KeyMissing
        THEN Out(listed, c, "KeyError", ss, PyNone)
        ELSE IF w.manual_run_id # ""
        THEN Out(listed \cup
                   {El("info", "monitor_list", 0,
                       <<"Using manual run_id: ", Slice(w.manual_run_id, 8),
                         "...">>)},
                 c, "", ss, w.manual_run_id)
        ELSE Out(listed, c, "", ss, srt[selected_idx].run_id)

TabMonitor(w, ss, resp) ==
    IF w.clicked = "refresh_monitor_list"
    THEN \* app.py 290-294
         Out({}, <<>>, "RerunException", RefreshList(ss), PyNone)
    ELSE
    LET c == <<Call("monitor_list", "GET", <<"/backtesting/list">>, 10, resp)>>
        j == SafeGetJson(resp)
        rs == j.data.runs
        body ==
            IF resp.raises # "" THEN Out({}, c, resp.raises, ss, PyNone)
            ELSE IF resp.status_code = "200"
            THEN IF j.error # <<>>
                 THEN Out({El("error", "monitor_list", 0, <<":x: ">> \o j.error)},
                          c, "", ss, PyNone)
                 ELSE IF j.data.t # "dict"
                 THEN Out({}, c, "AttributeError", ss, PyNone)
                 ELSE IF rs # <<>>
                 THEN The({Selector(w, ss, c, srt) : srt \in {Ranking(rs)}})
                 ELSE Out({El("info", "monitor_list", 0,
                              <<":memo: No backtest runs found yet.">>)},
                          c, "", ss, PyNone)
            ELSE Out({El("error", "monitor_list", 0,
                         <<":x: Failed to fetch runs: ", resp.status_code,
                           " - ", resp.text>>)},
                     c, "", ss, PyNone)
    IN  Handle(body, "monitor_list", "error", ":x: Error fetching runs: ")

----------------------------------------------------------------------------
(* tab_monitor, step 2: the status panel, app.py 422-597 *)

\* app.py 571-587: the preview loop over reversed(logs[-10:]); an entry
\* whose timestamp or message is null stops the loop with a TypeError
RECURSIVE PreviewLoop(_, _, _)
PreviewLoop(rest, i, acc) ==
    IF rest = <<>> THEN [shown |-> acc, raised |-> ""]
    ELSE LET log == Head(rest)
         IN  IF log.t # "dict" THEN PreviewLoop(Tail(rest), i + 1, acc)
             ELSE IF Get(log, "timestamp", "") = PyNone
                     \/ Get(log, "log_message", "") = PyNone
             THEN [shown |-> acc, raised |-> "TypeError"]
             ELSE PreviewLoop(Tail(rest), i + 1,
                     acc \cup
                     {El("text", "preview", i,
                         <<LogEmoji(Get(log, "log_level", "INFO")), " [",
                           Slice(Get(log, "timestamp", ""), 19), "] ",
                           Str(Get(log, "log_category", "UNKNOWN")), ": ",
                           Slice(Get(log, "log_message", ""), 150), "...">>)})

\* mutant: the first n entries instead of the last n
FirstOnes(q, n) == SubSeq(q, 1, IF Len(q) > n THEN n ELSE Len(q))

\* logs[-10:]
Last(q, n) == SubSeq(q, IF Len(q) > n THEN Len(q) - n + 1 ELSE 1, Len(q))

\* app.py 553-591: the recent-logs preview of a RUNNING run
Preview(ss, mon, logs_resp) ==
    LET c == <<Call("preview", "GET", <<"/backtesting/results/", mon>>, 10,
                    logs_resp)>>
        j == SafeGetJson(logs_resp)
        logs == j.data.logs
        body ==
            IF logs_resp.raises # "" THEN Out({}, c, logs_resp.raises, ss, mon)
            ELSE IF logs_resp.status_code = "200"
            THEN IF j.error # <<>> THEN Out({}, c, "", ss, mon)
                 ELSE IF j.data.t # "dict"
                 THEN Out({}, c, "AttributeError", ss, mon)
                 ELSE IF logs # <<>>
                 THEN The({Out(loop.shown, c, loop.raised, ss, mon) :
                           loop \in {PreviewLoop(Reverse(Last(logs, 10)), 1, {})}})
                 ELSE Out({El("info", "preview", 0, <<"No logs yet">>)},
                          c, "", ss, mon)
            ELSE Out({}, c, "", ss, mon)
    IN  Handle(body, "preview", "warning", "Could not fetch logs: ")

\* one section after another: the second runs unless the first was left
\* by an exception
Then(o1, o2) ==
    The({IF a.raised # "" THEN a
         ELSE [o2 EXCEPT !.shown = a.shown \cup @, !.calls = a.calls \o @] :
         a \in {o1}})

\* app.py 518-533: the stop button
Stop(w, ss, mon, stop_resp) ==
    IF w.clicked # "stop_backtest" THEN Out({}, <<>>, "", ss, mon)
    ELSE
    LET c == <<Call("stop", "POST", <<"/backtesting/stop/", mon>>, 10,
                    stop_resp)>>
        body ==
            IF stop_resp.raises # "" THEN Out({}, c, stop_resp.raises, ss, mon)
            ELSE IF stop_resp.status_code = "200"
            THEN Out({El("success", "stop", 0,
                         <<":white_check_mark: Stop signal sent">>)},
                     c, "RerunException", ss, mon)
            ELSE Out({El("error", "stop", 0,
                         <<":x: Failed to stop: ", stop_resp.text>>)},
                     c, "", ss, mon)
    IN  Handle(body, "stop", "error", ":x: Error: ")

\* mutant: opening one viewer closes the other
OpenViewerClosingOther(w, ss, mon, button, key) ==
    IF w.clicked = button
    THEN Out({}, <<>>, "RerunException",
             [[ss EXCEPT !.view_live_logs_run_id = KeyMissing,
                         !.view_results_run_id = KeyMissing]
                 EXCEPT ![key] = mon],
             mon)
    ELSE Out({}, <<>>, "", ss, mon)

\* a button that stores the run id under a view-state key and reruns
OpenViewer(w, ss, mon, button, key) ==
    IF w.clicked = button
    THEN Out({}, <<>>, "RerunException", [ss EXCEPT ![key] = mon], mon)
    ELSE Out({}, <<>>, "", ss, mon)

\* mutant: the stop column is offered for every stage but COMPLETED
StoppableUnlessCompleted(status) == status # "COMPLETED"

\* app.py 515: if status in ["PENDING", "RUNNING"]
Stoppable(status) == status \in {"PENDING", "RUNNING"}

\* the stage shown by a status response, app.py 450
StageShown(resp) ==
    IF resp.raises = "" /\ resp.status_code = "200" /\ resp.body.t = "dict"
    THEN Get(resp.body, "status", "UNKNOWN") ELSE KeyMissing

\* app.py 447-591: the panel of a parsed status response
Panel(w, ss, mon, status_data, stop_resp, logs_resp) ==
    LET status == Get(status_data, "status", "UNKNOWN")
        total_trades == Get(status_data, "total_trades", PyNone)
        head == {El("write", "status", 0,
                    <<"### ", StatusEmoji(status), " Status: **", Str(status),
                      "**">>),
                 El("metric", "status", 1,
                    <<"Run Name", Str(Get(status_data, "run_name", "N/A"))>>),
                 El("metric", "status", 2,
                    <<"Total Trades",
                      IF total_trades # PyNone THEN total_trades ELSE "N/A">>)}
        metrics == The({
            IF pnl.raised # "" THEN Out(head, <<>>, pnl.raised, ss, mon)
            ELSE IF status = "COMPLETED" /\ win.raised # ""
            THEN Out(head \cup {El("metric", "status", 3, <<"Net PnL", pnl.text>>)},
                     <<>>, win.raised, ss, mon)
            ELSE Out(head \cup {El("metric", "status", 3, <<"Net PnL", pnl.text>>)}
                       \cup (IF status = "COMPLETED"
                             THEN {El("metric", "status", 4,
                                      <<"Win Rate", win.text>>)}
                             ELSE {})
                       \cup (IF status = "FAILED"
                             THEN {El("error", "run_error", 0,
                                      <<"**Error:** ",
                                        Str(Get(status_data, "error_message",
                                                "Unknown error"))>>)}
                             ELSE {}),
                     <<>>, "", ss, mon) :
            pnl \in Percent(status_data, "net_pnl_pct", 2),
            win \in Percent(status_data, "win_rate", 1)})
        stop == IF Stoppable(status)
                THEN Stop(w, ss, mon, stop_resp) ELSE Out({}, <<>>, "", ss, mon)
        live == IF Stoppable(status)
                THEN OpenViewer(w, ss, mon, "view_live_logs",
                                "view_live_logs_run_id")
                ELSE Out({}, <<>>, "", ss, mon)
        full == IF status = "COMPLETED"
                THEN OpenViewer(w, ss, mon, "view_full_results",
                                "view_results_run_id")
                ELSE Out({}, <<>>, "", ss, mon)
        all  == IF status = "COMPLETED"
                THEN OpenViewer(w, ss, mon, "view_all_logs",
                                "view_live_logs_run_id")
                ELSE Out({}, <<>>, "", ss, mon)
        prev == IF status = "RUNNING" /\ ss.view_live_logs_run_id = KeyMissing
                THEN Preview(ss, mon, logs_resp) ELSE Out({}, <<>>, "", ss, mon)
    IN  Then(Then(Then(Then(Then(metrics, stop), live), full), all), prev)

Status(w, ss, mon, resp, stop_resp, logs_resp) ==
    IF ~Truthy(mon) THEN Out({}, <<>>, "", ss, mon)
    ELSE IF ~Sliceable(mon)
    THEN \* app.py 425: the header is written outside every handler
         Out({}, <<>>, "TypeError", ss, mon)
    ELSE IF w.clicked = "refresh_status_detail"
    THEN Out({El("write", "status", 0,
                 <<"### Monitoring: ", Slice(mon, 8), "...">>)},
             <<>>, "RerunException", ss, mon)   \* app.py 431-432
    ELSE
    LET c == <<Call("status", "GET", <<"/backtesting/status/", mon>>, 10, resp)>>
        j == SafeGetJson(resp)
        sent == Out({}, c, "", ss, mon)
        body ==
            IF resp.raises # "" THEN Out({}, c, resp.raises, ss, mon)
            ELSE IF resp.status_code = "200"
            THEN IF j.error # <<>>
                 THEN Out({El("error", "status", 0, <<":x: ">> \o j.error)},
                          c, "", ss, mon)
                 ELSE IF j.data.t # "dict"
                 THEN Out({}, c, "AttributeError", ss, mon)
                 ELSE Then(sent, Panel(w, ss, mon, j.data, stop_resp, logs_resp))
            ELSE Out({El("error", "status", 0,
                         <<":x: Failed to fetch status: ", resp.status_code,
                           " - ", resp.text>>)},
                     c, "", ss, mon)
        header == Out({El("write", "status", 0,
                          <<"### Monitoring: ", Slice(mon, 8), "...">>)},
                      <<>>, "", ss, mon)
    IN  Then(header, Handle(body, "status", "error", ":x: Error fetching status: "))

----------------------------------------------------------------------------
(* tab_history, app.py 599-698 *)

\* app.py 640-667: the rows of the table, or the exception that stops the
\* loop before any table is rendered
RECURSIVE HistoryRows(_, _, _)
HistoryRows(rest, i, acc) ==
    IF rest = <<>> THEN [shown |-> acc, raised |-> ""]
    ELSE LET run == Head(rest)
             total_trades == Get(run, "total_trades", PyNone)
             trades_display == IF total_trades # PyNone THEN total_trades ELSE "0"
             created_at == Get(run, "created_at", PyNone)
             created_display == IF Truthy(created_at) THEN Slice(created_at, 19)
                                ELSE "N/A"
         IN  The({
             IF pnl.raised # "" THEN [shown |-> {}, raised |-> pnl.raised]
             ELSE IF win.raised # "" THEN [shown |-> {}, raised |-> win.raised]
             ELSE IF run.run_id = KeyMissing
             THEN [shown |-> {}, raised |-> "KeyError"]
             ELSE IF run.run_id = PyNone \/ ~Sliceable(run.run_id)
             THEN [shown |-> {}, raised |-> "TypeError"]
             ELSE HistoryRows(Tail(rest), i + 1,
                     acc \cup
                     {El("row", "history", i,
                         <<Slice(run.run_id, 8) \o "...",
                           Str(Get(run, "run_name", "N/A")),
                           Str(Get(run, "status", "UNKNOWN")),
                           trades_display, pnl.text, win.text,
                           created_display>>)}) :
             pnl \in Percent(run, "net_pnl_pct", 2),
             win \in Percent(run, "win_rate", 1)})

\* app.py 680-684: the selector formats every run with runs[i]['run_name']
\* and runs[i]['status']
HistoryOptions(rs) ==
    IF \E i \in 1..Len(rs) :
          rs[i].run_name = KeyMissing \/ rs[i].status = KeyMissing
    THEN [shown |-> {}, raised |-> "KeyError"]
    ELSE [shown |-> {El("option", "history", i,
                        <<Str(rs[i].run_name), " - ", Str(rs[i].status)>>) :
                        i \in 1..Len(rs)},
          raised |-> ""]

TabHistory(w, ss, mon, resp, selected_idx) ==
    LET c == <<Call("history", "GET", <<"/backtesting/list">>, 10, resp)>>
        j == SafeGetJson(resp)
        rs == j.data.runs
        found == El("write", "history", 0,
                    <<"Found **", NumStr(Len(rs)), "** backtest runs:">>)
        idx == IF selected_idx <= Len(rs) THEN selected_idx ELSE 1
        body ==
            IF resp.raises # "" THEN Out({}, c, resp.raises, ss, mon)
            ELSE IF resp.status_code = "200"
            THEN IF j.error # <<>>
                 THEN Out({El("error", "history", 0, <<":x: ">> \o j.error)},
                          c, "", ss, mon)
                 ELSE IF j.data.t # "dict"
                 THEN Out({}, c, "AttributeError", ss, mon)
                 ELSE IF rs # <<>>
                 THEN The({
                      IF rows.raised # ""
                      THEN Out({found}, c, rows.raised, ss, mon)
                      ELSE IF opts.raised # ""
                      THEN Out({found} \cup rows.shown, c, opts.raised, ss, mon)
                      ELSE IF w.clicked = "view_selected_run"
                      THEN \* app.py 686-689
                           Out({found} \cup rows.shown \cup opts.shown, c,
                               "RerunException",
                               [ss EXCEPT !.view_results_run_id = rs[idx].run_id],
                               mon)
                      ELSE Out({found} \cup rows.shown \cup opts.shown, c, "",
                               ss, mon) :
                      rows \in {HistoryRows(rs, 1, {})},
                      opts \in {HistoryOptions(rs)}})
                 ELSE Out({El("info", "history", 0, <<"No backtest runs found">>)},
                          c, "", ss, mon)
            ELSE Out({El("error", "history", 0,
                         <<":x: Failed to fetch history: ", resp.status_code,
                           " - ", resp.text>>)},
                     c, "", ss, mon)
    IN  Handle(body, "history", "error", ":x: Error fetching history: ")

----------------------------------------------------------------------------
(* the log lists of the two viewers, app.py 745-795 and 900-940 *)

\* mutant: a close that forgets both viewers
CloseBothViewers(ss, key) ==
    [ss EXCEPT !.view_live_logs_run_id = KeyMissing,
               !.view_results_run_id = KeyMissing]

\* del st.session_state[key], app.py 718 and 820
CloseViewer(ss, key) == [ss EXCEPT ![key] = KeyMissing]

\* isinstance(log, dict)
IsDict(x) == x.t = "dict"

\* app.py 746-752: the categories offered; sorted() raises a TypeError on
\* a list that mixes None with strings, and the handler offers "UNKNOWN"
LogCategories(logs) ==
    LET cats == {Get(logs[i], "log_category", "UNKNOWN") :
                    i \in {k \in 1..Len(logs) : IsDict(logs[k])}}
    IN  IF PyNone \in cats /\ cats # {PyNone} THEN {"UNKNOWN"} ELSE cats

\* mutant: an entry passes when either of the two filters lets it pass
ApplyEitherFilter(logs, selected_category, selected_level) ==
    LET Either(log) ==
            IsDict(log)
            /\ \/ Get(log, "log_category", PyNone) = selected_category
               \/ Get(log, "log_level", PyNone) = selected_level
    IN  IF selected_category = "All" /\ selected_level = "All" THEN logs
        ELSE SelectSeq(logs, Either)

\* app.py 760-765: the category filter, then the level filter
ApplyFilters(logs, selected_category, selected_level) ==
    LET ByCategory(log) ==
            IsDict(log) /\ Get(log, "log_category", PyNone) = selected_category
        ByLevel(log) ==
            IsDict(log) /\ Get(log, "log_level", PyNone) = selected_level
        f1 == IF selected_category # "All" THEN SelectSeq(logs, ByCategory)
              ELSE logs
    IN  IF selected_level # "All" THEN SelectSeq(f1, ByLevel) ELSE f1

\* mutant: the reversal drops the oldest entry
NewestFirstDropping(filtered, auto_scroll) ==
    IF auto_scroll /\ filtered # <<>> THEN Reverse(Tail(filtered)) ELSE filtered

\* app.py 768-769: newest first when auto_scroll is set
NewestFirst(filtered, auto_scroll) ==
    IF auto_scroll THEN Reverse(filtered) ELSE filtered

\* app.py 760-769: the two filters, then the reversal
FilterLogs(logs, selected_category, selected_level, auto_scroll) ==
    NewestFirst(ApplyFilters(logs, selected_category, selected_level),
                auto_scroll)

\* app.py 775-795: one expander per entry that is a dict
LogExpanders(site, filtered_logs) ==
    {LET log == filtered_logs[i]
         timestamp == Get(log, "timestamp", "")
         timestamp_display == IF Truthy(timestamp) THEN Slice(timestamp, 19)
                              ELSE "N/A"
         log_message == Get(log, "log_message", "")
         message_preview == IF Truthy(log_message) THEN Slice(log_message, 100)
                            ELSE "Empty log"
     IN  El("expander", site, i,
            <<LogEmoji(Get(log, "log_level", "INFO")), " [", timestamp_display,
              "] ", Str(Get(log, "log_category", "UNKNOWN")), " - ",
              message_preview>>) :
        i \in {k \in 1..Len(filtered_logs) : IsDict(filtered_logs[k])}}

----------------------------------------------------------------------------
(* the live logs viewer, app.py 704-802 *)

LogsViewer(w, ss, mon, resp, selected_category, selected_level, auto_scroll) ==
    IF ss.view_live_logs_run_id = KeyMissing THEN Out({}, <<>>, "", ss, mon)
    ELSE
    LET run_id == ss.view_live_logs_run_id
        header == {El("write", "logs", 0,
                      <<"**Run ID:** ", Slice(run_id, 8), "...">>)}
        c == <<Call("logs", "GET", <<"/backtesting/results/", run_id>>, 30, resp)>>
        j == SafeGetJson(resp)
        logs == j.data.logs
        category == IF selected_category \in LogCategories(logs)
                    THEN selected_category ELSE "All"
        body ==
            IF resp.raises # "" THEN Out(header, c, resp.raises, ss, mon)
            ELSE IF resp.status_code = "200"
            THEN IF j.error # <<>>
                 THEN Out(header \cup {El("error", "logs", 0, <<":x: ">> \o j.error)},
                          c, "", ss, mon)
                 ELSE IF j.data.t # "dict"
                 THEN Out(header, c, "AttributeError", ss, mon)
                 ELSE IF logs # <<>>
                 THEN The({
                      Out(header
                            \cup {El("write", "logs", 0,
                                     <<"**Showing ", NumStr(Len(filtered_logs)),
                                       " logs:**">>)}
                            \cup LogExpanders("logs", filtered_logs),
                          c, "", ss, mon) :
                      filtered_logs \in {FilterLogs(logs, category, selected_level,
                                                    auto_scroll)}})
                 ELSE Out(header \cup {El("info", "logs", 0,
                                          <<"No logs available yet">>)},
                          c, "", ss, mon)
            ELSE Out(header \cup
                       {El("error", "logs", 0,
                           <<":x: Failed to fetch logs: ", resp.status_code,
                             " - ", resp.text>>)},
                     c, "", ss, mon)
    IN  IF w.clicked = "refresh_logs"
        THEN Out(header, <<>>, "RerunException", ss, mon)     \* app.py 714-715
        ELSE IF w.clicked = "close_logs"
        THEN \* app.py 717-719
             Out(header, <<>>, "RerunException",
                 CloseViewer(ss, "view_live_logs_run_id"), mon)
        ELSE Handle(body, "logs", "error", ":x: Error fetching logs: ")

----------------------------------------------------------------------------
(* the results viewer, app.py 809-946 *)

\* f"${price:.2f}" if price else "N/A", app.py 882-883
Price(v) ==
    IF v = PyNone \/ v = "0" THEN [raised |-> "", text |-> "N/A"]
    ELSE IF JsonNumber(v).type = "str" THEN [raised |-> "ValueError", text |-> ""]
    ELSE The({[raised |-> o.raised, text |-> "$" \o Join(o.ret)] :
                 o \in FormatFixed(JsonNumber(v).num, 2)})

\* f"{net_pnl_pct*100:.2f}%" if net_pnl_pct is not None else "N/A", app.py 885
TradePnl(v) ==
    IF v = PyNone THEN [raised |-> "", text |-> "N/A"]
    ELSE IF JsonNumber(v).type = "str" THEN [raised |-> "ValueError", text |-> ""]
    ELSE The({[raised |-> o.raised, text |-> Join(o.ret) \o "%"] :
                 o \in MultiplyThenFormat(JsonNumber(v).num, 100, 2)})

\* app.py 871-889: the rows of the trades table, or the exception that
\* stops the loop before the table is rendered
RECURSIVE TradeRows(_, _, _)
TradeRows(rest, i, acc) ==
    IF rest = <<>> THEN [shown |-> acc, raised |-> ""]
    ELSE LET t == Head(rest)
         IN  IF ~IsDict(t) THEN [shown |-> {}, raised |-> "AttributeError"]
             ELSE The({
             IF entry.raised # "" THEN [shown |-> {}, raised |-> entry.raised]
             ELSE IF exit.raised # "" THEN [shown |-> {}, raised |-> exit.raised]
             ELSE IF pnl.raised # "" THEN [shown |-> {}, raised |-> pnl.raised]
             ELSE TradeRows(Tail(rest), i + 1,
                     acc \cup
                     {El("row", "results", i,
                         <<Str(Get(t, "trading_pair", "N/A")), entry.text,
                           exit.text, pnl.text>>)}) :
             entry \in {Price(Get(t, "entry_price", "0"))},
             exit \in {Price(Get(t, "exit_price", PyNone))},
             pnl \in {TradePnl(Get(t, "net_pnl_pct", "0"))}})

\* app.py 900-908: sorted() over categories that mix None with strings
CategoriesRaise(logs) ==
    LET cats == {Get(logs[i], "log_category", "UNKNOWN") :
                    i \in {k \in 1..Len(logs) : IsDict(logs[k])}}
    IN  PyNone \in cats /\ cats # {PyNone}

ResultsViewer(w, ss, mon, resp, selected_category) ==
    IF ss.view_results_run_id = KeyMissing THEN Out({}, <<>>, "", ss, mon)
    ELSE
    LET run_id == ss.view_results_run_id
        header == {El("write", "results", 0, <<"**Run ID:** ", Str(run_id), "">>)}
        c == <<Call("results", "GET", <<"/backtesting/results/", Str(run_id)>>, 30,
                    resp)>>
        j == SafeGetJson(resp)
        run_info == j.data.run_info
        trades == j.data.trades
        logs == j.data.logs
        total_trades == Get(run_info, "total_trades", PyNone)
        category == IF selected_category \in LogCategories(logs)
                    THEN selected_category ELSE "All"
        Metrics(pnl, win) ==
            {El("metric", "results", 1,
                <<"Total Trades",
                  IF total_trades # PyNone THEN total_trades ELSE "0">>),
             El("metric", "results", 2, <<"Net PnL", pnl.text>>),
             El("metric", "results", 3, <<"Win Rate", win.text>>)}
        body ==
            IF resp.raises # "" THEN Out(header, c, resp.raises, ss, mon)
            ELSE IF resp.status_code = "200"
            THEN IF j.error # <<>>
                 THEN Out(header \cup
                            {El("error", "results", 0, <<":x: ">> \o j.error)},
                          c, "", ss, mon)
                 ELSE IF j.data.t # "dict" \/ ~IsDict(run_info)
                 THEN Out(header, c, "AttributeError", ss, mon)
                 ELSE The({
                      IF pnl.raised # "" THEN Out(header, c, pnl.raised, ss, mon)
                      ELSE IF win.raised # ""
                      THEN Out(header, c, win.raised, ss, mon)
                      ELSE IF rows.raised # ""
                      THEN Out(header \cup Metrics(pnl, win), c, rows.raised,
                               ss, mon)
                      ELSE Out(header \cup Metrics(pnl, win) \cup rows.shown
                                 \cup (IF CategoriesRaise(logs)
                                       THEN {El("warning", "results", 0,
                                                <<":warning: Error parsing log categories: ",
                                                  "TypeError">>)}
                                       ELSE {})
                                 \cup LogExpanders("results", filtered_logs),
                               c, "", ss, mon) :
                      pnl \in Percent(run_info, "net_pnl_pct", 2),
                      win \in Percent(run_info, "win_rate", 1),
                      rows \in {TradeRows(trades, 1, {})},
                      filtered_logs \in {FilterLogs(logs, category, "All", FALSE)}})
            ELSE Out(header \cup
                       {El("error", "results", 0,
                           <<":x: Failed to fetch results: ", resp.status_code,
                             " - ", resp.text>>)},
                     c, "", ss, mon)
    IN  IF w.clicked = "close_results"
        THEN \* app.py 819-821
             Out(header, <<>>, "RerunException",
                 CloseViewer(ss, "view_results_run_id"), mon)
        ELSE Handle(body, "results", "error", ":x: Error fetching results: ")

----------------------------------------------------------------------------
(* the backend's answers drawn for the page *)

\* a RunSummary / RunDetail as the backend sends it
Run(run_id, status, created_at) ==
    [t |-> "dict", run_id |-> run_id, status |-> status,
     created_at |-> created_at, run_name |-> "AI Agent Test",
     total_trades |-> "5", net_pnl_pct |-> "0.1234", win_rate |-> "0.5",
     error_message |-> IF status = "FAILED" THEN "boom" ELSE KeyMissing]

\* fields of a run that may be absent or null
RunFields == {"run_id", "run_name", "created_at"}

\* a run of every stage value
StageVariants == {Run("r1", st, "2024-01-01") : st \in StageVals \ {"BAR"}}

\* a PENDING run with one field absent or null or with a number as its
\* run id, and a COMPLETED run whose net_pnl_pct is beyond the range of a
\* double
FieldVariants ==
    {[Run("r1", "PENDING", "2024-01-01") EXCEPT ![f] = v] :
        f \in RunFields, v \in {KeyMissing, PyNone}}
      \cup {Run(NumberId, "PENDING", "2024-01-01"),
            [Run("r1", "PENDING", "2024-01-01") EXCEPT !.total_trades = KeyMissing],
            [Run("r1", "PENDING", "2024-01-01") EXCEPT !.net_pnl_pct = KeyMissing],
            [Run("r1", "COMPLETED", "2024-01-01") EXCEPT !.win_rate = PyNone],
            [Run("r1", "COMPLETED", "2024-01-01") EXCEPT !.net_pnl_pct = "10**400"]}

OtherRun == Run("r2", "COMPLETED", "2024-01-02")

ListBody(rs) == [t |-> "dict", runs |-> rs]

\* run lists drawn: none, one run of every stage, a run with a defective
\* field next to a complete one, two complete runs in both orders
RunLists ==
    {<<>>} \cup {<<a>> : a \in StageVariants}
           \cup {<<a, OtherRun>> : a \in FieldVariants}
           \cup {<<Run("r1", "RUNNING", "2024-01-01"), OtherRun>>,
                 <<OtherRun, Run("r1", "RUNNING", "2024-01-01")>>,
                 <<Run("r2", "RUNNING", "2024-01-02"),
                   Run("r1", "RUNNING", "2024-01-01")>>}

\* answers of GET /backtesting/list
ListResponses ==
    FailedResponses
      \cup {Http("200", "{\"runs\": ...}", ListBody(rs)) : rs \in RunLists}

\* answers of GET /backtesting/status/{run_id}
StatusResponses ==
    FailedResponses
      \cup {Http("200", "{\"status\": ...}", a) :
               a \in StageVariants \cup FieldVariants}

\* answers of POST /backtesting/start
StartResponses ==
    FailedResponses
      \cup {Http("200", "{\"run_id\": ...}", [t |-> "dict", run_id |-> v]) :
               v \in {"r1", PyNone, KeyMissing}}

\* answers of POST /backtesting/stop/{run_id}
StopResponses ==
    {Raises("Timeout"), Http("500", "Internal Server Error", NotJson),
     Http("200", "{\"status\": \"stopping\"}", [t |-> "dict"])}

\* a LogEntry as the backend sends it
Log(log_level, log_category, log_message) ==
    [t |-> "dict", log_level |-> log_level,
     timestamp |-> "2024-01-01T10:00:00.123456",
     log_category |-> log_category, log_message |-> log_message]

GoodLog == Log("INFO", "DECISION", "buy")

\* a log entry that is no dict
BadLog == [t |-> "str"]

LogFields == {"timestamp", "log_category", "log_message"}

LogVariants ==
    {GoodLog, Log("ERROR", "TRADE", "rejected"), BadLog}
      \cup {[GoodLog EXCEPT ![f] = v] :
               f \in LogFields, v \in {KeyMissing, PyNone}}

\* twelve entries, numbered by their message
ManyLogs == [i \in 1..12 |-> Log("INFO", "DECISION", NumStr(i))]

LogLists ==
    {<<>>, ManyLogs}
      \cup {<<GoodLog, a>> : a \in LogVariants}
      \cup {<<a, GoodLog>> : a \in {BadLog, [GoodLog EXCEPT !.timestamp = PyNone]}}
      \cup {<<BadLog>>, <<[GoodLog EXCEPT !.log_category = PyNone]>>}

\* a Trade as the backend sends it
Trade(entry_price, exit_price, net_pnl_pct) ==
    [t |-> "dict", trading_pair |-> "BTC-USDT", entry_price |-> entry_price,
     exit_price |-> exit_price, net_pnl_pct |-> net_pnl_pct]

TradeLists ==
    {<<>>, <<Trade("0.5", "0.5", "0.1234")>>,
     <<Trade("0.5", PyNone, PyNone)>>,
     <<Trade(KeyMissing, KeyMissing, KeyMissing), Trade("0.5", "0.5", "0.1234")>>,
     <<[Trade("0.5", "0.5", "0.1234") EXCEPT !.trading_pair = KeyMissing]>>,
     <<BadLog>>}

ResultsBody(run_info, trades, logs) ==
    [t |-> "dict", run_info |-> run_info, trades |-> trades, logs |-> logs]

\* answers of GET /backtesting/results/{run_id}
ResultsResponses ==
    FailedResponses
      \cup {Http("200", "{\"run_info\": ...}",
                 ResultsBody(OtherRun, <<Trade("0.5", "0.5", "0.1234")>>, ls)) :
               ls \in LogLists}
      \cup {Http("200", "{\"run_info\": ...}", ResultsBody(OtherRun, ts, <<GoodLog>>)) :
               ts \in TradeLists}
      \cup {Http("200", "{\"run_info\": ...}", ResultsBody(ri, <<>>, <<>>)) :
               ri \in {JsonNull,
                       [OtherRun EXCEPT !.total_trades = KeyMissing,
                                        !.net_pnl_pct = PyNone,
                                        !.win_rate = KeyMissing]}}

\* the category, the level and the "newest first" flag the operator may
\* have set in the logs viewer
FilterChoices == {<<"All", "All", TRUE>>, <<"DECISION", "ERROR", FALSE>>}

\* stands for the answer of a call that is not issued
NoResponse == Raises("not sent")

----------------------------------------------------------------------------
(* the render cycle *)

\* the buttons of the page
Buttons ==
    {"start_backtest", "refresh_monitor_list", "refresh_status_detail",
     "stop_backtest", "view_live_logs", "view_full_results", "view_all_logs",
     "refresh_history", "view_selected_run", "refresh_logs", "close_logs",
     "close_results"}

\* what the operator may type as a manual run id
ManualIds == {"", "r2"}

\* lines of the monitor selector the operator may choose
Lines == 1..2

\* the first load of the page in a new session
InitPage ==
    /\ RankIdle
    /\ FmtIdle
    /\ JsonIdle
    /\ FilterIdle
    /\ FormIdle
    /\ session_state = NewSession
    /\ widgets = [clicked |-> "none", manual_run_id |-> "",
                  monitor_run_selector |-> 1]
    /\ page_pc = "start"
    /\ monitor_run_id = PyNone
    /\ calls = <<>>
    /\ rendered = {}
    /\ script_exit = ""

\* the buttons a section of the script asks for
SectionButtons(section) ==
    IF section = "tab_config" THEN {"start_backtest"}
    ELSE IF section = "tab_monitor" THEN {"refresh_monitor_list"}
    ELSE IF section = "status"
    THEN {"refresh_status_detail", "stop_backtest", "view_live_logs",
          "view_full_results", "view_all_logs"}
    ELSE IF section = "tab_history" THEN {"refresh_history", "view_selected_run"}
    ELSE IF section = "logs_viewer" THEN {"refresh_logs", "close_logs"}
    ELSE IF section = "results_viewer" THEN {"close_results"}
    ELSE {}

\* a section has run and left o behind; a click is spent once the section
\* that asks for its button is over
Rendered(section, o) ==
    /\ page_pc' = section
    /\ widgets' = [widgets EXCEPT
                      !.clicked = IF @ \in SectionButtons(section) THEN "none"
                                  ELSE @]
    /\ rendered' = o.shown
    /\ calls' = o.calls
    /\ session_state' = o.session_state
    /\ monitor_run_id' = o.monitor_run_id
    /\ script_exit' = o.raised
    /\ UNCHANGED <<rankVars, fmtVars, jsonVars, filterVars, formVars>>

\* the script is running and has passed section pc
At(pc) == page_pc = pc /\ script_exit = ""

RenderTabConfig ==
    /\ At("start")
    /\ \E resp \in (IF widgets.clicked = "start_backtest" THEN StartResponses
                    ELSE {NoResponse}) :
          \E o \in {TabConfig(widgets, session_state, resp)} :
              Rendered("tab_config", o)

RenderTabMonitor ==
    /\ At("tab_config")
    /\ \E resp \in (IF widgets.clicked = "refresh_monitor_list" THEN {NoResponse}
                    ELSE ListResponses) :
          \E o \in {TabMonitor(widgets, session_state, resp)} :
              Rendered("tab_monitor", o)

\* the stop call is issued for a PENDING or RUNNING run when Stop was clicked
StopIssued(resp) ==
    widgets.clicked = "stop_backtest" /\ Stoppable(StageShown(resp))

\* the preview call is issued for a RUNNING run while no logs viewer is open
PreviewIssued(resp) ==
    StageShown(resp) = "RUNNING" /\ session_state.view_live_logs_run_id = KeyMissing

RenderStatus ==
    /\ At("tab_monitor")
    /\ \E resp \in (IF Truthy(monitor_run_id)
                       /\ widgets.clicked # "refresh_status_detail"
                    THEN StatusResponses ELSE {NoResponse}) :
       \E stop_resp \in (IF StopIssued(resp) THEN StopResponses ELSE {NoResponse}) :
       \E logs_resp \in (IF PreviewIssued(resp) THEN ResultsResponses
                         ELSE {NoResponse}) :
          \E o \in {Status(widgets, session_state, monitor_run_id, resp,
                            stop_resp, logs_resp)} :
              Rendered("status", o)

RenderTabHistory ==
    /\ At("status")
    /\ \E resp \in ListResponses :
       \E selected_idx \in (IF widgets.clicked = "view_selected_run" THEN Lines
                            ELSE {1}) :
          \E o \in {TabHistory(widgets, session_state, PyNone, resp,
                                selected_idx)} :
              Rendered("tab_history", o)

RenderLogsViewer ==
    /\ At("tab_history")
    /\ \E resp \in (IF session_state.view_live_logs_run_id = KeyMissing
                       \/ widgets.clicked \in {"refresh_logs", "close_logs"}
                    THEN {NoResponse} ELSE ResultsResponses) :
       \E f \in (IF resp = NoResponse THEN {<<"All", "All", TRUE>>}
                ELSE FilterChoices) :
          \E o \in {LogsViewer(widgets, session_state, PyNone, resp,
                                f[1], f[2], f[3])} :
              Rendered("logs_viewer", o)

RenderResultsViewer ==
    /\ At("logs_viewer")
    /\ \E resp \in (IF session_state.view_results_run_id = KeyMissing
                       \/ widgets.clicked = "close_results"
                    THEN {NoResponse} ELSE ResultsResponses) :
       \E selected_category \in (IF resp = NoResponse THEN {"All"}
                                 ELSE {"All", "DECISION"}) :
          \E o \in {ResultsViewer(widgets, session_state, PyNone, resp,
                                   selected_category)} :
              Rendered("results_viewer", o)

\* app.py 948-949: the end of the script
RenderSaveConfig ==
    /\ At("results_viewer")
    /\ Rendered("save_config",
                Out({El("write", "save_config", 0, <<"---">>)}, <<>>, "",
                    session_state, PyNone))

\* a new run of the script: after st.rerun() with no widget triggered,
\* after an operator interaction with the widget the operator touched
NewCycle(w) ==
    /\ widgets' = w
    /\ page_pc' = "start"
    /\ monitor_run_id' = PyNone
    /\ calls' = <<>>
    /\ rendered' = {}
    /\ script_exit' = ""
    /\ UNCHANGED session_state
    /\ UNCHANGED <<rankVars, fmtVars, jsonVars, filterVars, formVars>>

\* st.rerun(): the script stops and runs again from the top
Rerun ==
    /\ script_exit = "RerunException"
    /\ NewCycle([widgets EXCEPT !.clicked = "none"])

\* the script has run to its end, or an exception has stopped it, and the
\* page waits for the operator
Waiting ==
    \/ page_pc = "save_config" /\ script_exit = ""
    \/ script_exit \notin {"", "RerunException"}

ActiveRuns ==
    IF session_state.active_runs = KeyMissing THEN <<>>
    ELSE session_state.active_runs

\* the operator clicks a button
Click ==
    /\ Waiting
    /\ \E b \in Buttons :
          /\ b = "start_backtest" => Len(ActiveRuns) < MaxActive
          /\ NewCycle([widgets EXCEPT !.clicked = b])

\* the operator chooses a line of the monitor selector
SelectRun ==
    /\ Waiting
    /\ \E i \in Lines \ {widgets.monitor_run_selector} :
          NewCycle([widgets EXCEPT !.clicked = "none", !.monitor_run_selector = i])

\* the operator types or clears the manual run id
EnterManualRunId ==
    /\ Waiting
    /\ \E v \in ManualIds \ {widgets.manual_run_id} :
          NewCycle([widgets EXCEPT !.clicked = "none", !.manual_run_id = v])

NextPage ==
    \/ RenderTabConfig
    \/ RenderTabMonitor
    \/ RenderStatus
    \/ RenderTabHistory
    \/ RenderLogsViewer
    \/ RenderResultsViewer
    \/ RenderSaveConfig
    \/ Rerun
    \/ Click
    \/ SelectRun
    \/ EnterManualRunId

SpecPage == InitPage /\ [][NextPage]_vars

----------------------------------------------------------------------------
(* the monitor selector over successive loads of the page, app.py 296-420  *)
(*                                                                         *)
(* Only the run list section of each cycle is followed: no other section   *)
(* reads or writes the selector or the manual run id.  Over a reload the   *)
(* list shown stays on the page until the section runs again, and          *)
(* monitor_run_id keeps the id the cycle before monitored, so that two     *)
(* successive cycles can be compared; a new selection or manual entry      *)
(* clears the id.                                                          *)

InitSelector ==
    /\ RankIdle
    /\ FmtIdle
    /\ JsonIdle
    /\ FilterIdle
    /\ FormIdle
    /\ session_state = NewSession
    /\ widgets = [clicked |-> "none", manual_run_id |-> "",
                  monitor_run_selector |-> 1]
    /\ page_pc = "tab_config"
    /\ monitor_run_id = PyNone
    /\ calls = <<>>
    /\ rendered = {}
    /\ script_exit = ""

\* app.py 296-420 in a cycle that fetches the list
FetchRunList ==
    /\ At("tab_config")
    /\ widgets.clicked = "none"
    /\ \E resp \in ListResponses :
          \E o \in {TabMonitor(widgets, session_state, resp)} :
              Rendered("tab_monitor", o)

\* app.py 290-294: Refresh List was clicked, the script reruns at once and
\* the id monitored before stays the one to compare with
RefreshClicked ==
    /\ At("tab_config")
    /\ widgets.clicked = "refresh_monitor_list"
    /\ \E o \in {TabMonitor(widgets, session_state, NoResponse)} :
          /\ page_pc' = "tab_config"
          /\ widgets' = [widgets EXCEPT !.clicked = "none"]
          /\ session_state' = o.session_state
          /\ calls' = o.calls
          /\ rendered' = o.shown
          /\ script_exit' = ""
    /\ UNCHANGED monitor_run_id
    /\ UNCHANGED <<rankVars, fmtVars, jsonVars, filterVars, formVars>>

\* the page loads again, the widgets as the operator left them
LoadAgain(w, held) ==
    /\ page_pc = "tab_monitor"
    /\ page_pc' = "tab_config"
    /\ widgets' = w
    /\ monitor_run_id' = held
    /\ script_exit' = ""
    /\ UNCHANGED <<session_state, calls, rendered>>
    /\ UNCHANGED <<rankVars, fmtVars, jsonVars, filterVars, formVars>>

\* a reload with no new selection: a rerun, or a click on Refresh List
Reload ==
    \E b \in {"none", "refresh_monitor_list"} :
        LoadAgain([widgets EXCEPT !.clicked = b], monitor_run_id)

\* the operator chooses another line of the selector
SelectAgain ==
    \E i \in Lines \ {widgets.monitor_run_selector} :
        LoadAgain([widgets EXCEPT !.monitor_run_selector = i], PyNone)

\* the operator types or clears the manual run id
ManualAgain ==
    \E v \in ManualIds \ {widgets.manual_run_id} :
        LoadAgain([widgets EXCEPT !.manual_run_id = v], PyNone)

NextSelector ==
    \/ FetchRunList
    \/ RefreshClicked
    \/ Reload
    \/ SelectAgain
    \/ ManualAgain

SpecSelector == InitSelector /\ [][NextSelector]_vars

----------------------------------------------------------------------------
(* the filters of the live logs viewer, app.py 744-771 *)

\* longest log list drawn for the filters
MaxLogs == 3

\* the entries drawn: two categories and two levels, an entry without
\* category, one without level, one whose category is null, and one that
\* is no dict
FilterEntries ==
    {Log("INFO", "DECISION", "a"), Log("ERROR", "DECISION", "b"),
     Log("INFO", "TRADE", "c"), Log("ERROR", KeyMissing, "d"),
     Log(KeyMissing, "TRADE", "e"), Log("INFO", PyNone, "f"), BadLog}

\* app.py 758: the levels of the second selectbox
LogLevels == {"All", "INFO", "DEBUG", "WARNING", "ERROR"}

\* app.py 756: the categories of the first selectbox
OfferedCategories(logs) == {"All"} \cup LogCategories(logs)

\* app.py 743-758: a non-empty log list was fetched and the operator has
\* set the three widgets
InitFilter ==
    /\ RankIdle
    /\ FmtIdle
    /\ JsonIdle
    /\ PageIdle
    /\ FormIdle
    /\ \E n \in 1..MaxLogs :
         \E logs \in [1..n -> FilterEntries] :
            \E selected_category \in OfferedCategories(logs) :
               \E selected_level \in LogLevels :
                  \E auto_scroll \in BOOLEAN :
                     flt_in = [logs |-> logs,
                               selected_category |-> selected_category,
                               selected_level |-> selected_level,
                               auto_scroll |-> auto_scroll]
    /\ flt_out = <<>>
    /\ flt_pc = "fetched"

\* app.py 760-765
FilterStep ==
    /\ flt_pc = "fetched"
    /\ flt_out' = ApplyFilters(flt_in.logs, flt_in.selected_category,
                                     flt_in.selected_level)
    /\ flt_pc' = "filtered"
    /\ UNCHANGED flt_in
    /\ UNCHANGED <<rankVars, fmtVars, jsonVars, pageVars, formVars>>

\* app.py 767-771
OrderStep ==
    /\ flt_pc = "filtered"
    /\ flt_out' = NewestFirst(flt_out, flt_in.auto_scroll)
    /\ flt_pc' = "shown"
    /\ UNCHANGED flt_in
    /\ UNCHANGED <<rankVars, fmtVars, jsonVars, pageVars, formVars>>

NextFilter == FilterStep \/ OrderStep

SpecFilter == InitFilter /\ [][NextFilter]_vars

----------------------------------------------------------------------------
(* the configuration form, user_inputs.py 6-224, and the start payload,    *)
(* app.py 130 and 208-251                                                  *)
(*                                                                         *)
(* The text of the trading pairs area is a sequence of pieces: a pair      *)
(* name, a space or a line break.  The widgets that feed no redundant      *)
(* field keep their default values, numbers written as text.               *)

\* longest text drawn for the trading pairs area, in pieces
MaxPairsLen == 4

PairPieces == {"BTC-USDT", "ETH-USDT", " ", "\n"}

\* user_inputs.py 16: the connectors of the selectbox
Connectors == {"binance_perpetual", "okx_perpetual", "bybit_perpetual"}

\* user_inputs.py 137: the intervals of the selectbox
CandleIntervals == {"1m", "3m", "5m", "15m", "1h"}

\* user_inputs.py 41: the stripped, non-empty lines of the text
TradingPairs(trading_pairs_str) ==
    LET RECURSIVE Split(_, _)
        \* str.split("\n"): line is the line read so far
        Split(rest, line) ==
            IF rest = <<>> THEN <<line>>
            ELSE IF Head(rest) = "\n" THEN <<line>> \o Split(Tail(rest), <<>>)
            ELSE Split(Tail(rest), Append(line, Head(rest)))
        lines == Split(trading_pairs_str, <<>>)
        NotBlank(pair) == Strip(pair) # <<>>
        kept == SelectSeq(lines, NotBlank)
    IN  [i \in 1..Len(kept) |-> Join(Strip(kept[i]))]

\* mutant: the candles follow the last pair of the list
UserInputsLastPair(f) ==
    LET trading_pairs == TradingPairs(f.trading_pairs_str)
    IN  [controller_name |-> "ai_agent_v1",
         controller_type |-> "directional_trading",
         connector_name |-> f.connector_name,
         trading_pair |-> IF trading_pairs # <<>> THEN trading_pairs[1]
                          ELSE "BTC-USDT",
         trading_pairs |-> trading_pairs,
         candles_connector |-> f.connector_name,
         candles_trading_pair |->
             IF trading_pairs # <<>> THEN trading_pairs[Len(trading_pairs)]
             ELSE "BTC-USDT",
         interval |-> f.candles_interval,
         leverage |-> "5",
         total_amount_quote |-> "1000",
         max_concurrent_positions |-> "2",
         single_position_size_pct |-> "0.4",
         openrouter_api_key |-> "",
         llm_model |-> "deepseek/deepseek-chat",
         llm_temperature |-> "0.1",
         llm_max_tokens |-> "4000",
         decision_interval |-> "300",
         custom_system_prompt |-> PyNone,
         candles_interval |-> f.candles_interval,
         candles_max_records |-> "100",
         stop_loss |-> "0.025",
         take_profit |-> "0.05",
         time_limit |-> PyNone,
         trailing_stop |-> PyNone,
         position_mode |-> "ONEWAY"]

\* user_inputs.py 185-224: the dict returned
UserInputs(f) ==
    LET trading_pairs == TradingPairs(f.trading_pairs_str)
    IN  [controller_name |-> "ai_agent_v1",
         controller_type |-> "directional_trading",
         connector_name |-> f.connector_name,
         trading_pair |-> IF trading_pairs # <<>> THEN trading_pairs[1]
                          ELSE "BTC-USDT",
         trading_pairs |-> trading_pairs,
         candles_connector |-> f.connector_name,
         candles_trading_pair |-> IF trading_pairs # <<>> THEN trading_pairs[1]
                                  ELSE "BTC-USDT",
         interval |-> f.candles_interval,
         leverage |-> "5",
         total_amount_quote |-> "1000",
         max_concurrent_positions |-> "2",
         single_position_size_pct |-> "0.4",
         openrouter_api_key |-> "",
         llm_model |-> "deepseek/deepseek-chat",
         llm_temperature |-> "0.1",
         llm_max_tokens |-> "4000",
         decision_interval |-> "300",
         custom_system_prompt |-> PyNone,
         candles_interval |-> f.candles_interval,
         candles_max_records |-> "100",
         stop_loss |-> "0.025",
         take_profit |-> "0.05",
         time_limit |-> PyNone,
         trailing_stop |-> PyNone,
         position_mode |-> "ONEWAY"]

\* app.py 208-234: backtest_config, every field of inputs but the API key
BacktestConfig(inp) ==
    [controller_name |-> inp.controller_name,
     controller_type |-> inp.controller_type,
     connector_name |-> inp.connector_name,
     trading_pair |-> inp.trading_pair,
     total_amount_quote |-> inp.total_amount_quote,
     trading_pairs |-> inp.trading_pairs,
     max_concurrent_positions |-> inp.max_concurrent_positions,
     single_position_size_pct |-> inp.single_position_size_pct,
     decision_interval |-> inp.decision_interval,
     candles_connector |-> inp.candles_connector,
     candles_trading_pair |-> inp.candles_trading_pair,
     candles_interval |-> inp.candles_interval,
     interval |-> inp.interval,
     candles_max_records |-> inp.candles_max_records,
     llm_model |-> inp.llm_model,
     llm_temperature |-> inp.llm_temperature,
     llm_max_tokens |-> inp.llm_max_tokens,
     leverage |-> inp.leverage,
     position_mode |-> inp.position_mode,
     stop_loss |-> inp.stop_loss,
     take_profit |-> inp.take_profit,
     time_limit |-> inp.time_limit,
     trailing_stop |-> inp.trailing_stop,
     custom_system_prompt |-> inp.custom_system_prompt]

\* user_inputs.py 14-139: the form as the operator has filled it
InitForm ==
    /\ RankIdle
    /\ FmtIdle
    /\ JsonIdle
    /\ PageIdle
    /\ FilterIdle
    /\ \E connector_name \in Connectors :
         \E candles_interval \in CandleIntervals :
            \E n \in 0..MaxPairsLen :
               \E trading_pairs_str \in [1..n -> PairPieces] :
                  form = [connector_name |-> connector_name,
                          trading_pairs_str |-> trading_pairs_str,
                          candles_interval |-> candles_interval]
    /\ inputs = <<>>
    /\ payload = <<>>
    /\ form_pc = "filled"

\* app.py 130: inputs = user_inputs()
ReadForm ==
    /\ form_pc = "filled"
    /\ inputs' = UserInputs(form)
    /\ form_pc' = "read"
    /\ UNCHANGED <<form, payload>>
    /\ UNCHANGED <<rankVars, fmtVars, jsonVars, pageVars, filterVars>>

\* app.py 208-251: Start Backtest was clicked; the times are those of the
\* default dates, the trade cost is the default 0.06 / 100
BuildPayload ==
    /\ form_pc = "read"
    /\ payload' = [run_name |-> "AI Agent Test",
                   start_time |-> "1704067200",
                   end_time |-> "1704326399",
                   backtesting_resolution |-> "5m",
                   trade_cost |-> "0.0006",
                   config |-> BacktestConfig(inputs)]
    /\ form_pc' = "built"
    /\ UNCHANGED <<form, inputs>>
    /\ UNCHANGED <<rankVars, fmtVars, jsonVars, pageVars, filterVars>>

NextForm == ReadForm \/ BuildPayload

SpecForm == InitForm /\ [][NextForm]_vars

----------------------------------------------------------------------------
(* Properties of the run ranking *)

Ranked == rank_pc = "ranked"

\* positions of the ranking output
Pos == 1..Len(sorted_runs)

\* the status value a run carries, as the grouping loop reads it
StageOf(x) == x.status

\* the rank of a stage in the stated order RUNNING, PENDING, COMPLETED,
\* FAILED, CANCELLED, anything else
StageRank(st) ==
    CASE st = "RUNNING"   -> 1
      [] st = "PENDING"   -> 2
      [] st = "COMPLETED" -> 3
      [] st = "FAILED"    -> 4
      [] st = "CANCELLED" -> 5
      [] OTHER            -> 6

\* a run that carries a created_at string
HasCreated(x) == x.created_at \notin {KeyMissing, PyNone, ""}

\* created_at with an absent one counted as "2000-01-01"
EffCreated(x) == IF HasCreated(x) THEN x.created_at ELSE "2000-01-01"

\* C1: the ranking output is a permutation of the list response: same
\* length, every input run exactly once.
C1_Permutation ==
    Ranked =>
        /\ Len(sorted_runs) = Len(runs)
        /\ \A i \in 1..Len(runs) :
              Cardinality({j \in Pos : sorted_runs[j] = runs[i]}) = 1

\* C1 witness: three runs of mixed stages, ranked into another order
C1_Witness ==
    /\ Ranked
    /\ Len(runs) = 3
    /\ sorted_runs # runs
    /\ Cardinality({StageOf(runs[i]) : i \in 1..3}) = 3

\* C2: in the output no run precedes a run of an earlier stage in the
\* order RUNNING, PENDING, COMPLETED, FAILED, CANCELLED, other.
C2_StageOrder ==
    Ranked =>
        \A i, j \in Pos :
            i < j => StageRank(StageOf(sorted_runs[i]))
                        <= StageRank(StageOf(sorted_runs[j]))

\* C2 witness: an unrecognised, a CANCELLED and a RUNNING run, fetched in
\* that order, have been ranked
C2_Witness ==
    /\ Ranked
    /\ Len(runs) = 3
    /\ StageRank(StageOf(runs[1])) = 6
    /\ StageOf(runs[2]) = "CANCELLED"
    /\ StageOf(runs[3]) = "RUNNING"

\* C3: of two output entries with the same stage value, the one with the
\* later created_at comes first (stated for entries that carry a created_at).
C3_NewestFirstWithinStage ==
    Ranked =>
        \A i, j \in Pos :
            /\ i < j
            /\ StageOf(sorted_runs[i]) = StageOf(sorted_runs[j])
            /\ HasCreated(sorted_runs[i])
            /\ HasCreated(sorted_runs[j])
            => ~StrLess(sorted_runs[i].created_at, sorted_runs[j].created_at)

\* C4 as stated: ranking the ranking output gives the same sequence.
C4_Idempotent == Ranked => Ranking(sorted_runs) = sorted_runs

\* the sort keys (stage priority, created_at or "2000-01-01") of the
\* runs are pairwise distinct
DistinctKeys(rs) ==
    \A i, j \in 1..Len(rs) :
        i # j =>
            \/ StageRank(StageOf(rs[i])) # StageRank(StageOf(rs[j]))
            \/ EffCreated(rs[i]) # EffCreated(rs[j])

\* C4 amended: ranking the ranking output gives the same sequence when no
\* two runs have the same sort key.
C4_IdempotentDistinctKeys ==
    (Ranked /\ DistinctKeys(runs)) => Ranking(sorted_runs) = sorted_runs

\* C4 witness: three runs with distinct keys ranked into another order
C4_Witness ==
    /\ Ranked
    /\ Len(runs) = 3
    /\ DistinctKeys(runs)
    /\ sorted_runs # runs
    /\ \E i \in 1..3 : ~HasCreated(runs[i])

\* The two-pass reference: after the stable ascending sort, reverse each
\* contiguous group of equal priority.
RECURSIVE RefGroups(_, _, _)
RefGroups(rest, group, done) ==
    IF rest = <<>> THEN done \o Reverse(group)
    ELSE IF group = <<>>
              \/ StageRank(StageOf(Head(rest))) = StageRank(StageOf(group[1]))
         THEN RefGroups(Tail(rest), group \o <<Head(rest)>>, done)
         ELSE RefGroups(Tail(rest), <<Head(rest)>>, done \o Reverse(group))

RECURSIVE RefInsert(_, _)
RefInsert(s, x) ==
    IF s = <<>> THEN <<x>>
    ELSE IF \/ StageRank(StageOf(x)) < StageRank(StageOf(Head(s)))
            \/ /\ StageRank(StageOf(x)) = StageRank(StageOf(Head(s)))
               /\ StrLess(EffCreated(x), EffCreated(Head(s)))
         THEN <<x>> \o s
         ELSE <<Head(s)>> \o RefInsert(Tail(s), x)

RECURSIVE RefSort(_)
RefSort(s) ==
    IF s = <<>> THEN <<>>
    ELSE RefInsert(RefSort(SubSeq(s, 1, Len(s) - 1)), s[Len(s)])

ReferenceRanking(rs) == RefGroups(RefSort(rs), <<>>, <<>>)

\* C5: the ranking equals the two-pass reference, and priorities are
\* non-decreasing along it.
C5_MatchesReference ==
    Ranked =>
        /\ sorted_runs = ReferenceRanking(runs)
        /\ \A i, j \in Pos :
              i < j => StageRank(StageOf(sorted_runs[i]))
                          <= StageRank(StageOf(sorted_runs[j]))

AllSameStage(rs) == \A i, j \in 1..Len(rs) : StageOf(rs[i]) = StageOf(rs[j])

\* stable sort by created_at alone; desc = TRUE sorts descending. Runs
\* with equal created_at keep their input order in both directions.
RECURSIVE InsertByCreated(_, _, _)
InsertByCreated(s, x, desc) ==
    IF s = <<>> THEN <<x>>
    ELSE IF (IF desc THEN StrLess(EffCreated(Head(s)), EffCreated(x))
                     ELSE StrLess(EffCreated(x), EffCreated(Head(s))))
         THEN <<x>> \o s
         ELSE <<Head(s)>> \o InsertByCreated(Tail(s), x, desc)

RECURSIVE SortByCreated(_, _)
SortByCreated(s, desc) ==
    IF s = <<>> THEN <<>>
    ELSE InsertByCreated(SortByCreated(SubSeq(s, 1, Len(s) - 1), desc),
                         s[Len(s)], desc)

\* C6 as stated: with one stage, the output is the stable descending sort
\* of the input by created_at.
C6_StableDescending ==
    (Ranked /\ AllSameStage(runs)) => sorted_runs = SortByCreated(runs, TRUE)

\* C6 amended: with one stage, the output is the input sorted by created_at
\* descending with runs of equal created_at in reverse input order, that
\* is the reverse of the stable ascending sort.
C6_ReverseOfAscending ==
    (Ranked /\ AllSameStage(runs))
        => sorted_runs = Reverse(SortByCreated(runs, FALSE))

\* C6 witness: three runs of one stage, two of them without created_at
C6_Witness ==
    /\ Ranked
    /\ Len(runs) = 3
    /\ AllSameStage(runs)
    /\ ~HasCreated(runs[1])
    /\ ~HasCreated(runs[2])
    /\ HasCreated(runs[3])

\* C7: a run without created_at comes after every run of the same stage
\* that has one (stated for created_at values later than "2000-01-01").
C7_MissingRankedOldest ==
    Ranked =>
        \A i, j \in Pos :
            /\ StageOf(sorted_runs[i]) = StageOf(sorted_runs[j])
            /\ ~HasCreated(sorted_runs[i])
            /\ HasCreated(sorted_runs[j])
            /\ StrLess("2000-01-01", sorted_runs[j].created_at)
            => j < i

----------------------------------------------------------------------------
(* Properties of safe_float_format *)

FormatDone == fmt_pc \in {"returned", "raised"}

\* the number a value stands for, if it is an int, a float or a str that
\* float() accepts
IsNumeric(v) ==
    \/ v.type \in {"int", "bool", "float"}
    \/ v.type = "str" /\ ParseFloat(v.text).ok

NumberOf(v) == IF v.type = "str" THEN ParseFloat(v.text).num ELSE v.num

\* C8: the call never raises; it returns the default for None, for a
\* non-numeric str and for any other type; and it returns something other
\* than the default only for an int, a float or a numeric str.
C8_NeverRaises ==
    FormatDone =>
        /\ fmt_pc = "returned"
        /\ fmt_out.raised = ""
        /\ ~IsNumeric(fmt_in.value) => fmt_out.ret = DefaultText
        /\ fmt_out.ret # DefaultText => IsNumeric(fmt_in.value)

\* the text between prefix and suffix of a returned string
Between(out, prefix, suffix) ==
    SubSeq(out, Len(prefix) + 1, Len(out) - Len(suffix))

Wrapped(out, prefix, suffix) ==
    /\ Len(out) >= Len(prefix) + Len(suffix)
    /\ SubSeq(out, 1, Len(prefix)) = prefix
    /\ SubSeq(out, Len(out) - Len(suffix) + 1, Len(out)) = suffix

\* body is an optional "-", at least one digit, and, when decimals > 0,
\* a "." followed by exactly decimals digits
IsFixed(body, decimals) ==
    LET u == IF body # <<>> /\ Head(body) = "-" THEN Tail(body) ELSE body
        n == Len(u)
    IN  IF decimals = 0
        THEN n >= 1 /\ \A i \in 1..n : IsDigit(u[i])
        ELSE /\ n >= decimals + 2
             /\ u[n - decimals] = "."
             /\ \A i \in 1..n : i # n - decimals => IsDigit(u[i])

\* the amount a fixed body shows, in units of 10^-decimals
RECURSIVE ShownAmount(_)
ShownAmount(u) ==
    IF u = <<>> THEN 0
    ELSE IF IsDigit(u[Len(u)])
         THEN 10 * ShownAmount(SubSeq(u, 1, Len(u) - 1)) + DigitVal(u[Len(u)])
         ELSE ShownAmount(SubSeq(u, 1, Len(u) - 1))

\* body shows value * multiplier rounded to decimals decimals
ShowsProduct(body, num, multiplier, decimals) ==
    LET step  == Pow10(FracDigits - decimals)
        exact == num.mag * multiplier
        shown == ShownAmount(body) * step
    IN  /\ IsFixed(body, decimals)
        /\ (body # <<>> /\ Head(body) = "-") <=> num.neg
        /\ 2 * shown <= 2 * exact + step
        /\ 2 * exact <= 2 * shown + step

----------------------------------------------------------------------------
(* Properties of safe_get_json_response *)

JsonDone == json_pc \in {"returned", "raised"}

\* q is s or a beginning of s
IsPrefix(q, s) == Len(q) <= Len(s) /\ SubSeq(s, 1, Len(q)) = q

\* C10 as stated: the call never raises, a caller that sees no error
\* holds parsed data (not None), and a message quotes at most the first
\* 200 characters of the body.
C10_NoErrorMeansData ==
    JsonDone =>
        /\ json_pc = "returned"
        /\ json_out.error = JNone => json_out.data # JNone
        /\ json_out.error # JNone =>
              /\ json_out.data = JNone
              /\ Len(json_out.error.quoted) <= 200
              /\ IsPrefix(json_out.error.quoted, response.text)

\* C10 amended: the call never raises; for a body that is valid JSON it
\* returns (parsed value, None), where the parsed value is None for the
\* body null, so (None, None) is returned exactly for a JSON null; for any
\* other body it returns (None, message), the message quoting at most the
\* first 200 characters of the body.
C10_PairShape ==
    JsonDone =>
        LET e == ParseJson(response.text)
        IN  /\ json_pc = "returned"
            /\ e.ok => json_out.data = e.val /\ json_out.error = JNone
            /\ ~e.ok =>
                  /\ json_out.data = JNone
                  /\ json_out.error # JNone
                  /\ Len(json_out.error.quoted) <= 200
                  /\ IsPrefix(json_out.error.quoted, response.text)
            /\ (json_out.data = JNone /\ json_out.error = JNone)
                  => Strip(response.text) = <<"n", "u", "l", "l">>

\* C10 witness: the body null has been parsed: no data and no error
C10_Witness ==
    /\ json_pc = "returned"
    /\ response.text = <<"n", "u", "l", "l">>
    /\ json_out.data = JNone
    /\ json_out.error = JNone

----------------------------------------------------------------------------
(* Properties of the page *)

\* the positions of the calls issued by the section that has just run
CallPos == 1..Len(calls)

\* a call that did not come back as a 200 with a JSON body
Failed(c) == c.outcome # "ok"

\* the text msg has the piece p among the pieces of its f-string
Contains(msg, p) == \E k \in 1..Len(msg) : msg[k] = p

\* the section of the script that holds a call site
SectionOf(site) ==
    IF site = "start" THEN "tab_config"
    ELSE IF site = "monitor_list" THEN "tab_monitor"
    ELSE IF site \in {"status", "stop", "preview"} THEN "status"
    ELSE IF site = "history" THEN "tab_history"
    ELSE IF site = "logs" THEN "logs_viewer"
    ELSE "results_viewer"

\* C11: every request carries the timeout of its call class: 30 seconds
\* when it goes to /backtesting/results/{run_id}, whichever site sends it,
\* and 10 seconds otherwise (start, list, status, stop).
C11_TimeoutByCallClass ==
    \A i \in CallPos :
        calls[i].timeout = IF calls[i].url[1] = "/backtesting/results/" THEN 30
                           ELSE 10

C13_EveryFailureShown ==
    \A i \in CallPos :
        Failed(calls[i])
            => \E e \in rendered :
                  e.site = calls[i].site /\ e.el \in {"error", "warning"}

\* C14: every non-200 answer leaves a message of its call site on the page
\* that holds the status code and the raw body text.
C14_Non200ShowsCodeAndBody ==
    \A i \in CallPos :
        calls[i].outcome = "non200"
            => \E e \in rendered :
                  /\ e.site = calls[i].site
                  /\ Contains(e.msg, calls[i].resp.status_code)
                  /\ Contains(e.msg, calls[i].resp.text)

\* C15: whatever the calls of a run of the script answer, no exception
\* leaves a section: a section ends normally or in the reload its own
\* button asked for, and after a section that ended normally the next one
\* is rendered, up to save_config.
C15_CycleRunsToItsEnd ==
    /\ script_exit \in {"", "RerunException"}
    /\ (script_exit = "" /\ page_pc # "save_config")
          => ENABLED (RenderTabConfig \/ RenderTabMonitor \/ RenderStatus
                        \/ RenderTabHistory \/ RenderLogsViewer
                        \/ RenderResultsViewer \/ RenderSaveConfig)

\* the elements of one kind that a call site has rendered
Listed(site, el) == {e \in rendered : e.site = site /\ e.el = el}

\* an answer that came back as a 200 with a JSON object
Answered(c) == c.outcome = "ok" /\ c.resp.body.t = "dict"

\* a run whose defects, if any, are among the displayed fields only: its
\* run id is a str and its numbers are within the range of a double
SoundRun(run) == run.run_id \in RunIds /\ run.net_pnl_pct # "10**400"

Min(a, b) == IF a < b THEN a ELSE b

\* C16: a record that lacks a displayed field, or has null for it, is
\* rendered with a substitute, and so are the records next to it: a run
\* list gets one selector line per run in the monitor tab and one table row
\* and one selector line per run in the history tab, the preview shows each
\* of the last ten log entries, and none of these sites shows an error or a
\* warning.
C16_AbsentFieldSubstituted ==
    \A i \in CallPos :
        LET c == calls[i]
            runs_ == c.resp.body.runs
            logs_ == c.resp.body.logs
        IN  /\ (/\ c.site \in {"monitor_list", "history"}
                /\ Answered(c)
                /\ \A k \in 1..Len(runs_) : SoundRun(runs_[k]))
                  => /\ Cardinality(Listed(c.site, "option")) = Len(runs_)
                     /\ c.site = "history"
                           => Cardinality(Listed(c.site, "row")) = Len(runs_)
                     /\ Listed(c.site, "error") = {}
            /\ (/\ c.site = "preview"
                /\ Answered(c)
                /\ \A k \in 1..Len(logs_) : IsDict(logs_[k]))
                  => /\ Cardinality(Listed("preview", "text"))
                           = Min(Len(logs_), 10)
                     /\ Listed("preview", "warning") = {}

\* the five stages the page knows
KnownStages == {"PENDING", "RUNNING", "COMPLETED", "FAILED", "CANCELLED"}

\* the emoji and the text rendered for a stage: the question mark for a
\* stage the page does not know, "UNKNOWN" for an absent status, the stage
\* itself for a str
StageMarked(emoji, text, status) ==
    /\ status \notin KnownStages => emoji = ":question:"
    /\ status = KeyMissing => text = "UNKNOWN"
    /\ status \notin {KeyMissing, PyNone} => text = status

\* C17: whatever stage the backend returns, the monitor selector has a line
\* for every run of the list and the status panel has its status line,
\* with the unknown marker for an unrecognised, null or absent stage; a
\* status answer of such a stage leaves no error in the panel and no
\* exception.  The page keeps no stage between two runs of the script, so
\* every stage is accepted after every other one.
C17_AnyStageRendered ==
    \A i \in CallPos :
        LET c == calls[i]
            srt == Ranking(c.resp.body.runs)
            st_ == c.resp.body.status
        IN  /\ (c.site = "monitor_list" /\ Answered(c))
                  => \A k \in 1..Len(srt) :
                        \E e \in Listed("monitor_list", "option") :
                            /\ e.idx = k
                            /\ StageMarked(e.msg[1], e.msg[3], srt[k].status)
            /\ (c.site = "status" /\ Answered(c) /\ SoundRun(c.resp.body))
                  => /\ \E e \in Listed("status", "write") :
                            /\ e.msg[1] = "### "
                            /\ e.msg[3] = " Status: **"
                            /\ StageMarked(e.msg[2], e.msg[4], st_)
                     /\ st_ \notin KnownStages
                           => /\ script_exit = ""
                              /\ Listed("status", "error") = {}

\* C17 witness: the status panel of a run whose stage is the unrecognised
\* "FOO" is on the page
C17_Witness ==
    /\ page_pc = "status"
    /\ script_exit = ""
    /\ \E i \in CallPos :
          /\ calls[i].site = "status"
          /\ Answered(calls[i])
          /\ calls[i].resp.body.status = "FOO"
    /\ \E e \in Listed("status", "write") :
          e.msg[2] = ":question:" /\ e.msg[4] = "FOO"

\* C18: opening one viewer never clears or changes the run id of the
\* other: a step that stores a run id under one of the two view-state keys
\* leaves the other key as it was.
C18_ViewersIndependent ==
    [][/\ (/\ session_state'.view_live_logs_run_id # KeyMissing
           /\ session_state'.view_live_logs_run_id
                 # session_state.view_live_logs_run_id)
             => session_state'.view_results_run_id
                   = session_state.view_results_run_id
       /\ (/\ session_state'.view_results_run_id # KeyMissing
           /\ session_state'.view_results_run_id
                 # session_state.view_results_run_id)
             => session_state'.view_live_logs_run_id
                   = session_state.view_live_logs_run_id
      ]_vars

\* C18 witness: both viewers are open at once, for two different runs, and
\* the results viewer has rendered below the logs viewer
C18_Witness ==
    /\ session_state.view_live_logs_run_id = "r1"
    /\ session_state.view_results_run_id = "r2"
    /\ page_pc = "results_viewer"
    /\ Listed("results", "write") # {}

\* C19: a click on Close in the logs viewer removes view_live_logs_run_id
\* and a click on Close Results removes view_results_run_id; the step
\* leaves every other key of the session state and the operator's choice
\* of the monitored run (selector line, manual run id) as they were.
C19_CloseRemovesOnlyItsKey ==
    [][/\ (/\ page_pc' = "logs_viewer"
           /\ widgets.clicked = "close_logs"
           /\ session_state.view_live_logs_run_id # KeyMissing)
             => /\ session_state'
                      = [session_state EXCEPT !.view_live_logs_run_id = KeyMissing]
                /\ widgets'.monitor_run_selector = widgets.monitor_run_selector
                /\ widgets'.manual_run_id = widgets.manual_run_id
       /\ (/\ page_pc' = "results_viewer"
           /\ widgets.clicked = "close_results"
           /\ session_state.view_results_run_id # KeyMissing)
             => /\ session_state'
                      = [session_state EXCEPT !.view_results_run_id = KeyMissing]
                /\ widgets'.monitor_run_selector = widgets.monitor_run_selector
                /\ widgets'.manual_run_id = widgets.manual_run_id
      ]_vars

\* C19 witness: Close has been clicked in the logs viewer while the results
\* viewer was open: the logs key is gone, the results key is still there
C19_Witness ==
    /\ page_pc = "logs_viewer"
    /\ script_exit = "RerunException"
    /\ Listed("logs", "write") # {}
    /\ session_state.view_live_logs_run_id = KeyMissing
    /\ session_state.view_results_run_id # KeyMissing

\* the buttons that open or close a viewer
ViewButtons ==
    {"view_live_logs", "view_all_logs", "view_full_results",
     "view_selected_run", "close_logs", "close_results"}

\* C20: the two view-state keys change only in a step of a run of the
\* script that the operator started by a click on a button that opens or
\* closes a viewer; no other click, no reload and no answer of the backend
\* sets, changes or clears them.
C20_ViewStateOperatorOnly ==
    [][(\/ session_state'.view_live_logs_run_id
             # session_state.view_live_logs_run_id
        \/ session_state'.view_results_run_id
             # session_state.view_results_run_id)
          => widgets.clicked \in ViewButtons
      ]_vars

\* C20 witness: Refresh List has been clicked while both viewers were open;
\* the script reloads and both keys are still there
C20_Witness ==
    /\ page_pc = "tab_monitor"
    /\ script_exit = "RerunException"
    /\ session_state.view_live_logs_run_id # KeyMissing
    /\ session_state.view_results_run_id # KeyMissing

----------------------------------------------------------------------------
(* Properties of the page, continued *)

\* the run ids of the list the cycle fetched
ListedRunIds ==
    IF calls # <<>> /\ calls[1].site = "monitor_list" /\ Answered(calls[1])
       /\ calls[1].resp.body.t = "dict"
    THEN {calls[1].resp.body.runs[i].run_id :
             i \in 1..Len(calls[1].resp.body.runs)}
    ELSE {}

\* C21: a run chosen in the monitor selector stays the monitored run over
\* every reload in which the operator chooses nothing and types no manual
\* id; here the operator chose the second line, and the list fetched after
\* the reload holds the same runs as the list before, in any order and at
\* any stage.
C21_MonitoredRunHeld ==
    [][(/\ page_pc = "tab_config"
        /\ page_pc' = "tab_monitor"
        /\ widgets.monitor_run_selector = 2
        /\ widgets.manual_run_id = ""
        /\ Truthy(monitor_run_id)
        /\ monitor_run_id \in ListedRunIds
        /\ ListedRunIds' = ListedRunIds)
       => monitor_run_id' = monitor_run_id]_vars

\* the filters have run on the fetched list
Filtered == flt_pc = "filtered"

\* the entry passes the category chosen and the level chosen
Passes(e) ==
    /\ flt_in.selected_category # "All"
          => IsDict(e) /\ e.log_category = flt_in.selected_category
    /\ flt_in.selected_level # "All"
          => IsDict(e) /\ e.log_level = flt_in.selected_level

\* the positions of the fetched list whose entries pass
Passing == {k \in 1..Len(flt_in.logs) : Passes(flt_in.logs[k])}

\* C22: the filtered list holds exactly the entries that pass both the
\* category and the level chosen ("All" lets every entry pass), each once
\* and in the order of the fetched list.
C22_FilteredIsPassingSubsequence ==
    Filtered =>
        /\ Len(flt_out) = Cardinality(Passing)
        /\ \A k \in Passing :
              flt_out[Cardinality({i \in Passing : i <= k})]
                  = flt_in.logs[k]

\* both filters are set, an entry passes both, another passes the category
\* only and is dropped
C22_Witness ==
    /\ Filtered
    /\ flt_in.selected_category # "All"
    /\ flt_in.selected_level # "All"
    /\ flt_out # <<>>
    /\ \E k \in 1..Len(flt_in.logs) :
          /\ IsDict(flt_in.logs[k])
          /\ flt_in.logs[k].log_category = flt_in.selected_category
          /\ k \notin Passing

\* C23: with "newest first" set the list displayed is the filtered list in
\* reverse, with the flag clear it is the filtered list itself; either way
\* it has the same entries and the same length.
C23_NewestFirstReversesFiltered ==
    [][(Filtered /\ flt_pc' = "shown") =>
          /\ Len(flt_out') = Len(flt_out)
          /\ \A i \in 1..Len(flt_out) :
                flt_out'[i] =
                    IF flt_in.auto_scroll
                    THEN flt_out[Len(flt_out) + 1 - i]
                    ELSE flt_out[i]]_vars

\* a filter dropped an entry, two different entries were left, and the
\* list displayed has them newest first
C23_Witness ==
    /\ flt_pc = "shown"
    /\ flt_in.auto_scroll
    /\ flt_in.selected_category # "All"
    /\ Len(flt_out) = 2
    /\ Len(flt_in.logs) = 3
    /\ flt_out[1] # flt_out[2]

\* the "Showing N logs" line of the live logs viewer
ShowingLines ==
    {e \in Listed("logs", "write") : e.msg[1] = "**Showing "}

\* C24: an entry that is no dict never is in the filtered list, whatever
\* the filters, so the number in "Showing N logs" is the number of entries
\* the viewer renders below it.
C24_CountIsEntriesRendered ==
    page_pc = "logs_viewer" =>
        \A e \in ShowingLines :
            e.msg[2] = NumStr(Cardinality(Listed("logs", "expander")))

\* the stage the status request of this cycle returned
StageFetched ==
    IF calls # <<>> /\ calls[1].site = "status" THEN StageShown(calls[1].resp)
    ELSE KeyMissing

\* C26: in the status section a stop request is sent only for a stage
\* fetched as PENDING or RUNNING, the results viewer is opened only for
\* COMPLETED, the logs viewer only for PENDING, RUNNING or COMPLETED; for
\* any other stage, or without an answered status request, none happens.
C26_ActionsGatedByFetchedStage ==
    [][page_pc' = "status" =>
          /\ (\E k \in 1..Len(calls') : calls'[k].site = "stop")
                => StageFetched' \in {"PENDING", "RUNNING"}
          /\ session_state'.view_results_run_id
                  # session_state.view_results_run_id
                => StageFetched' = "COMPLETED"
          /\ session_state'.view_live_logs_run_id
                  # session_state.view_live_logs_run_id
                => StageFetched' \in {"PENDING", "RUNNING", "COMPLETED"}]_vars

\* a stop request was sent for a run fetched as PENDING, and a viewer key
\* written before is still there
C26_Witness ==
    /\ page_pc = "status"
    /\ StageFetched = "PENDING"
    /\ \E k \in 1..Len(calls) : calls[k].site = "stop"
    /\ session_state.view_live_logs_run_id # KeyMissing

\* C27: active_runs only grows, by the run id of a start call answered
\* with 200 and a run id, once per such call; no entry of it is null.
C27_ActiveRunsHoldRunIds ==
    \A i \in 1..Len(ActiveRuns) : ActiveRuns[i] # PyNone

\* C28: every category the dropdown offers besides "All", "UNKNOWN"
\* included, selects at least one entry: with the level left at "All" the
\* filtered list is never empty.
C28_OfferedCategorySelectsEntries ==
    (Filtered /\ flt_in.selected_category # "All"
              /\ flt_in.selected_level = "All")
        => flt_out # <<>>

\* C29: once the operator has entered a manual run id, the run monitored
\* after the list fetch is that id, whatever the fetch returned; without a
\* manual id and without a listed run nothing is monitored.
C29_ManualRunIdWins ==
    (page_pc = "tab_monitor" /\ calls # <<>>) =>
        IF widgets.manual_run_id # ""
        THEN monitor_run_id = widgets.manual_run_id
        ELSE ListedRunIds = {} => monitor_run_id = PyNone

\* the preview calls of the section that ran last
PreviewCalls == {k \in CallPos : calls[k].site = "preview"}

\* the texts of the preview
PreviewTexts == Listed("preview", "text")

\* C30: the preview request is sent only in a cycle whose status answer
\* says RUNNING and in which no logs viewer is open; of the entries it
\* returns the preview shows the last ten at most, the most recent first,
\* and none that is no dict.
C30_PreviewOnlyWhileRunning ==
    page_pc = "status" =>
        \A k \in PreviewCalls :
            /\ StageFetched = "RUNNING"
            /\ session_state.view_live_logs_run_id = KeyMissing
            /\ Answered(calls[k]) =>
                 LET logs == calls[k].resp.body.logs
                     n == Len(logs)
                     shown == 1..Min(10, n)
                 IN  /\ Cardinality(PreviewTexts) <= 10
                     /\ \A e \in PreviewTexts :
                           /\ e.idx \in shown
                           /\ IsDict(logs[n + 1 - e.idx])
                           /\ e.msg[7] = Get(logs[n + 1 - e.idx], "log_message", "")
                     /\ Listed("preview", "warning") = {} =>
                           \A i \in shown :
                              IsDict(logs[n + 1 - i]) =>
                                 \E e \in PreviewTexts : e.idx = i

\* twelve entries came back and the preview shows ten of them
C30_Witness ==
    /\ page_pc = "status"
    /\ \E k \in PreviewCalls :
          Answered(calls[k]) /\ Len(calls[k].resp.body.logs) = 12
    /\ Cardinality(PreviewTexts) = 10

\* the fields of the config that repeat another field or a widget
RedundantFields ==
    {"connector_name", "candles_connector", "trading_pair", "trading_pairs",
     "candles_trading_pair", "interval", "candles_interval"}

\* C25: in the dict user_inputs returns, interval is candles_interval,
\* candles_connector is connector_name, candles_trading_pair is
\* trading_pair, and trading_pair is the first of trading_pairs, or
\* "BTC-USDT" when there is none; the config of the start payload has the
\* same values.
C25_RedundantFieldsAgree ==
    /\ form_pc \in {"read", "built"} =>
          /\ inputs.interval = inputs.candles_interval
          /\ inputs.candles_interval = form.candles_interval
          /\ inputs.candles_connector = inputs.connector_name
          /\ inputs.connector_name = form.connector_name
          /\ inputs.candles_trading_pair = inputs.trading_pair
          /\ inputs.trading_pair =
                IF Len(inputs.trading_pairs) > 0 THEN inputs.trading_pairs[1]
                ELSE "BTC-USDT"
    /\ form_pc = "built" =>
          \A f \in RedundantFields : payload.config[f] = inputs[f]

\* the payload is built from a text with two different pairs and some
\* white space
C25_Witness ==
    /\ form_pc = "built"
    /\ Len(inputs.trading_pairs) = 2
    /\ inputs.trading_pairs[1] # inputs.trading_pairs[2]
    /\ Len(form.trading_pairs_str) = 4
    /\ payload.config.candles_trading_pair = inputs.trading_pairs[1]

====
